---- MODULE Spec2Model ----
(***************************************************************************)
(* Recurring-payment detection and caching pipeline of clearflow           *)
(* (backend/app/services/recurring_detection.py and its callers).          *)
(*                                                                         *)
(* Dates are day numbers, amounts are integer cents, averages and          *)
(* percentages are exact fractions [num, den].  A Python None is NULL for  *)
(* string columns and the empty tuple for date columns.  A date string is  *)
(* [iso |-> d] when it is the "%Y-%m-%d" text of day d and [text |-> s]    *)
(* when it is anything else.                                               *)
(***************************************************************************)
EXTENDS Integers, Sequences, FiniteSets, TLC

\* ---------------------------------------------------------------- bounds
\* Number of days the clock may advance.
MaxDay == 1
\* Number of calls made when calls may overlap.
MaxCalls == 3

\* Number of transactions of a generated merchant group.
MaxTxns == 4

\* Number of hours the clock of the insights service may advance.
MaxHours == 1

\* Length of the observation lists the statistics engine is applied to.
MaxObs == 3

\* Largest average interval, in days, the frequency classifier is applied to.
MaxInterval == 382

\* Number of transactions handed to the background categorization job.
MaxIds == 4

\* ------------------------------------------------------- program constants
LookbackDays == 180
MinOccurrences == 2

INSIGHTS_CACHE_DAYS == 30

\* max_retries of _categorize_transactions_in_background
MaxRetries == 2
HoursPerDay == 24

NULL == "NULL"
NoDate == <<>>
Date(d) == <<d>>

Users == {"u1"}
OtherUser == "u2"
Merchants == {"m1", "m2"}
\* r1 is a request handler (GET /recurring awaits detect_recurring_payments on
\* the event loop), r2 an executor thread (_run_detection_in_background, which
\* always forces a refresh)
Runs == {"r1", "r2"}
Threads == {"r2"}
Categories == {"Uncategorized", "Income"}

\* ------------------------------------------------------------ generic helpers
Get(d, k, default) == IF k \in DOMAIN d THEN d[k] ELSE default

Frac(n, d) == [num |-> n, den |-> d]
\* a/b <= c/d and a/b < c/d for positive denominators
FracLe(x, y) == x.num * y.den <= y.num * x.den
FracLt(x, y) == x.num * y.den < y.num * x.den
Int2Frac(n) == Frac(n, 1)

Abs(x) == IF x < 0 THEN -x ELSE x

RECURSIVE SumSeq(_)
SumSeq(s) == IF s = <<>> THEN 0 ELSE Head(s) + SumSeq(Tail(s))

RECURSIVE MinSeq(_)
MinSeq(s) == IF Len(s) = 1 THEN s[1]
             ELSE LET m == MinSeq(Tail(s)) IN IF s[1] <= m THEN s[1] ELSE m

RECURSIVE MaxSeq(_)
MaxSeq(s) == IF Len(s) = 1 THEN s[1]
             ELSE LET m == MaxSeq(Tail(s)) IN IF s[1] >= m THEN s[1] ELSE m

\* date.isoformat() and datetime.strptime(s, "%Y-%m-%d").date()
IsoFormat(d) == [iso |-> d]
IsIsoDate(s) == "iso" \in DOMAIN s
Strptime(s) == s.iso

\* sorted(txns, key=lambda x: x["date"]): stable, ascending by the date string
RECURSIVE InsertByDate(_, _)
InsertByDate(sorted, t) ==
    IF sorted = <<>> THEN <<t>>
    ELSE IF Strptime(t.date) < Strptime(Head(sorted).date)
         THEN <<t>> \o sorted
         ELSE <<Head(sorted)>> \o InsertByDate(Tail(sorted), t)

\* (mutation: the list is taken in the order it comes)
NotSorted(txns) == txns

RECURSIVE SortedByDate(_)
SortedByDate(txns) ==
    IF txns = <<>> THEN <<>>
    ELSE InsertByDate(SortedByDate(SubSeq(txns, 1, Len(txns) - 1)), txns[Len(txns)])

\* ------------------------------------------------------------ statistics engine
calculate_transaction_stats(txns) ==
    IF txns = <<>>
    THEN [count |-> 0, avg_interval_days |-> Int2Frac(0), amount_min |-> 0,
          amount_max |-> 0, amount_variance_pct |-> Int2Frac(0)]
    ELSE LET sorted_txns == SortedByDate(txns)
             deltas == [i \in 1..(Len(sorted_txns) - 1) |->
                          Strptime(sorted_txns[i + 1].date) - Strptime(sorted_txns[i].date)]
             intervals == SelectSeq(deltas, LAMBDA x : x > 0)
             avg_interval == IF intervals # <<>>
                             THEN Frac(SumSeq(intervals), Len(intervals))
                             ELSE Int2Frac(0)
             amounts == [i \in 1..Len(txns) |-> Abs(txns[i].amount)]
             amount_min == MinSeq(amounts)
             amount_max == MaxSeq(amounts)
             variance_pct == IF amount_min > 0
                             THEN Frac((amount_max - amount_min) * 100, amount_min)
                             ELSE Int2Frac(0)
         IN [count |-> Len(txns), avg_interval_days |-> avg_interval,
             amount_min |-> amount_min, amount_max |-> amount_max,
             amount_variance_pct |-> variance_pct]

\* (mutation: the ends of a range are left out)
InRangeExclusive(lo, x, hi) == FracLt(Int2Frac(lo), x) /\ FracLt(x, Int2Frac(hi))

InRange(lo, x, hi) == FracLe(Int2Frac(lo), x) /\ FracLe(x, Int2Frac(hi))

detect_frequency_from_interval(avg_interval) ==
    IF FracLe(avg_interval, Int2Frac(0)) THEN NULL
    ELSE IF InRange(5, avg_interval, 9) THEN "weekly"
    ELSE IF InRange(12, avg_interval, 17) THEN "bi-weekly"
    ELSE IF InRange(26, avg_interval, 35) THEN "monthly"
    ELSE IF InRange(85, avg_interval, 100) THEN "quarterly"
    ELSE IF InRange(350, avg_interval, 380) THEN "yearly"
    ELSE NULL

\* (mutation: a month of 31 days)
FrequencyDaysLongMonth(frequency) ==
    CASE frequency = "weekly" -> 7
      [] frequency = "bi-weekly" -> 14
      [] frequency = "monthly" -> 31
      [] frequency = "quarterly" -> 90
      [] frequency = "yearly" -> 365
      [] OTHER -> 0

FrequencyDays(frequency) ==
    CASE frequency = "weekly" -> 7
      [] frequency = "bi-weekly" -> 14
      [] frequency = "monthly" -> 30
      [] frequency = "quarterly" -> 90
      [] frequency = "yearly" -> 365
      [] OTHER -> 0

calculate_next_expected_date(last_date, frequency) ==
    IF FrequencyDays(frequency) # 0
    THEN Date(last_date + FrequencyDays(frequency))
    ELSE NoDate

\* ------------------------------------------------------------------ state
VARIABLES
    transactions,   \* table "transactions": the ledger rows
    cache,          \* table "recurring_cache": the committed rows
    now,            \* the clock (datetime.utcnow), in days
    hasKey,         \* settings.OPENROUTER_API_KEY is set
    pc,             \* pc[r]: where detect_recurring_payments call r stands
    session,        \* session[r]: the objects held by the call's Session
    local,          \* local[r]: arguments, local variables and result of the call
    workers,        \* the calls that may run (request handlers, executor threads)
    menu,           \* the answers the oracle may give
    left,           \* the number of calls still to come (-1: any number)
    snapshots,      \* table "recurring_insights": the committed rows
    utcnow,         \* the clock of the insights service, in hours
    probe           \* the last application of a pure function: [fn, input, output]

vars == <<transactions, cache, now, hasKey, pc, session, local, workers, menu, left,
          snapshots, utcnow, probe>>

\* what the detection pipeline leaves alone
NoProbe == [fn |-> "none"]

\* ------------------------------------------------------------ the ledger
\* One merchant group per profile: <<date, amount>> pairs.
Profiles ==
    [weekly    |-> << <<-7, -500>>, <<0, -500>> >>,
     irregular |-> << <<-3, -500>>, <<0, -500>> >>,
     variable  |-> << <<-30, -1000>>, <<0, -1300>> >>,
     aging     |-> << <<-180, -500>>, <<-173, -500>> >>,
     single    |-> << <<0, -500>> >>]

FirstId(m) == IF m = "m1" THEN 0 ELSE 2

DescriptionRaw(m) == IF m = "m1" THEN "M1 STORE #1" ELSE "M2 STORE #2"

LedgerOf(m, profile) ==
    { [id |-> FirstId(m) + i, user_id |-> "u1", merchant_key |-> m,
       date |-> Profiles[profile][i][1], amount |-> Profiles[profile][i][2],
       description_raw |-> DescriptionRaw(m), category |-> "Uncategorized"]
      : i \in 1..Len(Profiles[profile]) }

\* Transaction.date.desc(): latest first; rows of one date by id, latest first
RECURSIVE OrderByDateDesc(_)
OrderByDateDesc(S) ==
    IF S = {} THEN <<>>
    ELSE LET t == CHOOSE x \in S : \A y \in S :
                      x.date > y.date \/ (x.date = y.date /\ x.id >= y.id)
         IN <<t>> \o OrderByDateDesc(S \ {t})

\* lines 221-227: the expense rows of the user within the lookback window
ExpenseTransactions(txnTable, user_id, today) ==
    OrderByDateDesc({t \in txnTable : /\ t.user_id = user_id
                                      /\ t.date >= today - LookbackDays
                                      /\ t.amount < 0})

\* lines 232-241: the dict appended to merchant_groups[txn.merchant_key]
TxnDict(t) ==
    [id |-> t.id, date |-> IsoFormat(t.date), amount |-> t.amount,
     description_raw |-> t.description_raw, category |-> t.category]

\* keys of merchant_groups in insertion order
RECURSIVE GroupKeys(_, _)
GroupKeys(txns, seen) ==
    IF txns = <<>> THEN <<>>
    ELSE IF Head(txns).merchant_key \in seen THEN GroupKeys(Tail(txns), seen)
    ELSE <<Head(txns).merchant_key>>
         \o GroupKeys(Tail(txns), seen \cup {Head(txns).merchant_key})

GroupOf(txns, key) ==
    LET mine == SelectSeq(txns, LAMBDA t : t.merchant_key = key)
    IN [i \in 1..Len(mine) |-> TxnDict(mine[i])]

\* lines 243-269: merchants_to_analyze
MerchantsToAnalyze(txns) ==
    LET keys == SelectSeq(GroupKeys(txns, {}),
                          LAMBDA k : Len(GroupOf(txns, k)) >= MinOccurrences)
    IN [i \in 1..Len(keys) |->
          LET group == GroupOf(txns, keys[i])
          IN [merchant_key |-> keys[i],
              merchant_name |-> group[1].description_raw,
              category |-> group[1].category,
              transactions |-> group,
              stats |-> calculate_transaction_stats(group)]]

\* ------------------------------------------------- the pattern cache table
\* (mutation: the table was created without the unique constraint)
UniqueConstraintMissing(table, row) == TRUE

\* UniqueConstraint("user_id", "merchant_key"): what an INSERT of `row` into
\* `table` is checked against
UniqueConstraintHolds(table, row) ==
    \A x \in table : ~(x.user_id = row.user_id /\ x.merchant_key = row.merchant_key)

NextId(table) ==
    IF table = {} THEN 1
    ELSE 1 + (CHOOSE n \in {x.id : x \in table} : \A x \in table : x.id <= n)

\* db.query(RecurringCache).filter(user_id == .., merchant_key == ..): the SELECT
\* runs against the committed table (the sessions are made with autoflush=False,
\* so objects added and not yet committed are not found)
CacheRows(table, user_id, merchant_key) ==
    {x \in table : x.user_id = user_id /\ x.merchant_key = merchant_key}

\* The Session is a sequence of objects [id, orig, cur]: id = 0 for an object
\* that was db.add()ed and is still pending, orig the row as it was loaded,
\* cur the attributes now.  .first() gives the index of the object for the
\* first row found (the object already in the identity map when the row was
\* loaded before), and 0 for None.
FirstRow(rows) == CHOOSE x \in rows : \A y \in rows : x.id <= y.id

QueryFirst(objs, table, user_id, merchant_key) ==
    LET rows == CacheRows(table, user_id, merchant_key)
    IN IF rows = {} THEN [objs |-> objs, idx |-> 0]
       ELSE LET row == FirstRow(rows)
                known == {i \in 1..Len(objs) : objs[i].id = row.id}
            IN IF known # {}
               THEN [objs |-> objs, idx |-> CHOOSE i \in known : TRUE]
               ELSE [objs |-> Append(objs, [id |-> row.id, orig |-> row, cur |-> row]),
                     idx |-> Len(objs) + 1]

\* db.add(RecurringCache(...))
SessionAdd(objs, entry) == Append(objs, [id |-> 0, orig |-> entry, cur |-> entry])

\* the UPDATE flushed for a loaded object sets the columns whose value differs
\* from the loaded one
ApplyUpdate(row, obj) ==
    [f \in DOMAIN row |-> IF obj.cur[f] # obj.orig[f] THEN obj.cur[f] ELSE row[f]]

UpdateRows(table, objs) ==
    { LET mine == {i \in 1..Len(objs) : objs[i].id = row.id}
      IN IF mine = {} THEN row ELSE ApplyUpdate(row, objs[CHOOSE i \in mine : TRUE])
      : row \in table }

\* the INSERTs flushed for the pending objects, in the order they were added:
\* [ok, table]
RECURSIVE InsertRows(_, _)
InsertRows(table, objs) ==
    IF objs = <<>> THEN [ok |-> TRUE, table |-> table]
    ELSE IF Head(objs).id # 0 THEN InsertRows(table, Tail(objs))
    ELSE IF ~UniqueConstraintHolds(table, Head(objs).cur)
         THEN [ok |-> FALSE, table |-> table]
         ELSE InsertRows(table \cup {[Head(objs).cur EXCEPT !.id = NextId(table)]},
                         Tail(objs))

\* (mutation: the commit first deletes the rows of the run's users that the
\* run did not load)
FlushDeletingUnloaded(table, objs) ==
    LET users == {objs[i].cur.user_id : i \in 1..Len(objs)}
        kept == {row \in table : \/ row.user_id \notin users
                                 \/ \E i \in 1..Len(objs) : objs[i].id = row.id}
    IN InsertRows(UpdateRows(kept, objs), objs)

\* db.commit(): flush everything or nothing
Flush(table, objs) == InsertRows(UpdateRows(table, objs), objs)

\* _cache_to_dict (is_recurring is not a key of the dict: it records the
\* attribute of the entry the dict was made from)
Or(value, default) == IF value = NULL THEN default ELSE value

IsoOrNone(d) == IF d = NoDate THEN NoDate ELSE <<IsoFormat(d[1])>>

CacheToDict(c) ==
    [merchant_key |-> c.merchant_key,
     merchant_name |-> Or(c.merchant_name, c.merchant_key),
     category |-> Or(c.category, "Other"),
     frequency |-> Or(c.frequency, "monthly"),
     typical_amount |-> c.typical_amount,
     amount_variance |-> Or(c.amount_variance, "variable"),
     confidence |-> Or(c.confidence, "low"),
     transaction_count |-> c.transaction_count,
     last_transaction_date |-> IsoOrNone(c.last_transaction_date),
     next_expected_date |-> IsoOrNone(c.next_expected_date),
     ai_notes |-> c.ai_notes,
     is_recurring |-> c.is_recurring]

\* lines 210-214 and 599-603: the cached recurring rows, Income excluded
CachedRecurring(table, user_id) ==
    {x \in table : x.user_id = user_id /\ x.is_recurring = TRUE /\ x.category # "Income"}

RECURSIVE OrderById(_)
OrderById(S) ==
    IF S = {} THEN <<>>
    ELSE LET x == CHOOSE y \in S : \A z \in S : y.id <= z.id
         IN <<x>> \o OrderById(S \ {x})

CachedDicts(table, user_id) ==
    LET rows == OrderById(CachedRecurring(table, user_id))
    IN [i \in 1..Len(rows) |-> CacheToDict(rows[i])]

FirstDate(merchant) == Strptime(SortedByDate(merchant.transactions)[1].date)
LastDate(merchant) ==
    Strptime(SortedByDate(merchant.transactions)[Len(merchant.transactions)].date)

\* ------------------------------------------------- the verification oracle
\* What the chat-completion call of _call_ai_for_detection can give:
\* an exception (network error, timeout, non-2xx), a text without a JSON
\* array or with invalid JSON, or a text with a JSON array of verdicts.
\* typical_amount is [num |-> n] for a JSON number, [str |-> s] for a string.
VRecurring ==
    [is_recurring |-> TRUE, same_transaction |-> TRUE, frequency |-> "monthly",
     typical_amount |-> [num |-> 1599], amount_variance |-> "fixed",
     confidence |-> "high", next_expected_date |-> [iso |-> 30],
     notes |-> "Monthly subscription"]

VNotSame ==
    [is_recurring |-> TRUE, same_transaction |-> FALSE, frequency |-> "weekly",
     typical_amount |-> [num |-> -500], confidence |-> "medium",
     next_expected_date |-> [text |-> "next week"]]

VNo == [is_recurring |-> FALSE, frequency |-> NULL]

VBadAmount ==
    [is_recurring |-> TRUE, same_transaction |-> TRUE, frequency |-> "yearly",
     typical_amount |-> [str |-> "15.99"]]

WithKey(v, k) == [f \in DOMAIN v \cup {"merchant_key"} |->
                    IF f = "merchant_key" THEN k ELSE v[f]]

\* the JSON arrays the oracle answers with
VerdictLists ==
    { <<WithKey(VRecurring, "m1")>>,
      <<WithKey(VNo, "m1")>>,
      <<WithKey(VNotSame, "m1")>>,
      <<WithKey(VBadAmount, "m1")>>,
      <<WithKey(VRecurring, "m2"), WithKey(VRecurring, "m1")>>,
      <<WithKey(VNo, "m1"), WithKey(VNo, "m2")>>,
      <<WithKey(VRecurring, "m2"), WithKey(VBadAmount, "m1")>>,
      <<WithKey(VNotSame, "m1"), WithKey(VRecurring, "m1")>>,
      <<WithKey(VRecurring, "m2"), WithKey(VRecurring, "m1"), WithKey(VNo, "m1")>>,
      <<VRecurring, WithKey(VRecurring, "unknown_merchant"), WithKey(VNo, "m1")>> }

Responses ==
    {[kind |-> "error"], [kind |-> "unparseable"]}
    \cup {[kind |-> "json", results |-> rs] : rs \in VerdictLists}

NoResponse == [kind |-> "none"]

\* lines 304-334: the list _call_ai_for_detection returns; it raises exactly
\* when the transport does
CallRaises(response) == response.kind = "error"
ParsedResults(response) ==
    IF response.kind = "json" THEN response.results ELSE <<>>

\* ------------------------------------------------ _process_ai_results (337-470)
\* lines 366-371
\* (mutation: same_transaction ignored)
VerdictIgnoresSameTransaction(result) == Get(result, "is_recurring", FALSE)

VerdictIsRecurring(result) ==
    Get(result, "is_recurring", FALSE) /\ Get(result, "same_transaction", TRUE)

\* abs(result.get("typical_amount") or 0): TypeError on a string
TypicalAmountRaises(result) ==
    "typical_amount" \in DOMAIN result /\ "str" \in DOMAIN result.typical_amount
TypicalAmount(result) ==
    IF "typical_amount" \in DOMAIN result THEN Abs(result.typical_amount.num) ELSE 0

\* lines 406-414 and 431-437
ParsedNextDate(result, otherwise) ==
    IF "next_expected_date" \in DOMAIN result
    THEN IF IsIsoDate(result.next_expected_date)
         THEN Date(Strptime(result.next_expected_date))
         ELSE NoDate
    ELSE otherwise

\* (mutation: the update adds to transaction_count and appends to ai_notes
\* where lines 391 and 386 assign)
AIUpdatedAccumulates(cur, result, merchant, clock) ==
    [cur EXCEPT !.is_recurring = Get(result, "is_recurring", FALSE)
                                    /\ Get(result, "same_transaction", TRUE),
                !.frequency = Get(result, "frequency", NULL),
                !.confidence = Get(result, "confidence", "low"),
                !.ai_verified = TRUE,
                !.last_analyzed_at = clock,
                !.transaction_count = cur.transaction_count + merchant.stats.count]

\* lines 381-414: the attributes of an existing entry after the update
AIUpdated(cur, result, merchant, clock) ==
    [cur EXCEPT !.is_recurring = VerdictIsRecurring(result),
                !.frequency = Get(result, "frequency", NULL),
                !.typical_amount = TypicalAmount(result),
                !.amount_variance = Get(result, "amount_variance", "variable"),
                !.confidence = Get(result, "confidence", "low"),
                !.ai_verified = TRUE,
                !.ai_notes = Get(result, "notes", ""),
                !.last_analyzed_at = clock,
                !.transaction_count = merchant.stats.count,
                !.category = merchant.category,
                !.merchant_name = merchant.merchant_name,
                !.first_transaction_date = Date(FirstDate(merchant)),
                !.last_transaction_date = Date(LastDate(merchant)),
                !.next_expected_date = ParsedNextDate(result, cur.next_expected_date)]

\* lines 381-382: what an update has assigned when line 383 raises
AIUpdateInterrupted(cur, result) ==
    [cur EXCEPT !.is_recurring = VerdictIsRecurring(result),
                !.frequency = Get(result, "frequency", NULL)]

\* lines 439-456
AICreated(result, merchant, user_id, clock) ==
    [id |-> 0, user_id |-> user_id, merchant_key |-> merchant.merchant_key,
     merchant_name |-> merchant.merchant_name,
     is_recurring |-> VerdictIsRecurring(result),
     frequency |-> Get(result, "frequency", NULL),
     typical_amount |-> TypicalAmount(result),
     amount_variance |-> Get(result, "amount_variance", "variable"),
     confidence |-> Get(result, "confidence", "low"),
     category |-> merchant.category,
     transaction_count |-> merchant.stats.count,
     first_transaction_date |-> Date(FirstDate(merchant)),
     last_transaction_date |-> Date(LastDate(merchant)),
     next_expected_date |-> ParsedNextDate(result, NoDate),
     ai_verified |-> TRUE, ai_notes |-> Get(result, "notes", ""),
     last_analyzed_at |-> clock]

\* (mutation: a key that is not a candidate's is taken for the first candidate)
MerchantIndexOrFirst(merchants, key) ==
    IF \E i \in 1..Len(merchants) : merchants[i].merchant_key = key
    THEN {i \in 1..Len(merchants) : merchants[i].merchant_key = key}
    ELSE {i \in 1..Len(merchants) : i = 1}

MerchantIndex(merchants, key) ==
    {i \in 1..Len(merchants) : merchants[i].merchant_key = key}

\* lines 360-460, one iteration of the loop; st = [objs, ret, raised]
ProcessResult(st, result, merchants, user_id, table, clock) ==
    LET merchant_key == Get(result, "merchant_key", NULL)
        found == MerchantIndex(merchants, merchant_key)
    IN IF merchant_key = NULL \/ found = {} THEN st
       ELSE LET merchant == merchants[CHOOSE i \in found : TRUE]
                q == QueryFirst(st.objs, table, user_id, merchant_key)
            IN IF q.idx # 0
               THEN IF TypicalAmountRaises(result)
                    THEN [st EXCEPT !.raised = TRUE,
                            !.objs = [q.objs EXCEPT ![q.idx].cur =
                                         AIUpdateInterrupted(@, result)]]
                    ELSE LET entry == AIUpdated(q.objs[q.idx].cur, result, merchant, clock)
                         IN [st EXCEPT !.objs = [q.objs EXCEPT ![q.idx].cur = entry],
                                       !.ret = IF entry.is_recurring
                                               THEN Append(@, CacheToDict(entry)) ELSE @]
               ELSE IF TypicalAmountRaises(result)
                    THEN [st EXCEPT !.raised = TRUE]
                    ELSE LET entry == AICreated(result, merchant, user_id, clock)
                         IN [st EXCEPT !.objs = SessionAdd(q.objs, entry),
                                       !.ret = IF entry.is_recurring
                                               THEN Append(@, CacheToDict(entry)) ELSE @]

RECURSIVE ProcessAIResults(_, _, _, _, _, _)
ProcessAIResults(st, ai_results, merchants, user_id, table, clock) ==
    IF ai_results = <<>> \/ st.raised THEN st
    ELSE ProcessAIResults(
             ProcessResult(st, Head(ai_results), merchants, user_id, table, clock),
             Tail(ai_results), merchants, user_id, table, clock)

\* --------------------------------------------- _algorithm_only_detection (473-568)
\* lines 494-504
\* (mutation: a variance of exactly 20 percent accepted)
AlgorithmIsRecurringInclusive(stats) ==
    /\ detect_frequency_from_interval(stats.avg_interval_days) # NULL
    /\ FracLe(stats.amount_variance_pct, Int2Frac(20))
    /\ stats.count >= 2

AlgorithmIsRecurring(stats) ==
    /\ detect_frequency_from_interval(stats.avg_interval_days) # NULL
    /\ FracLt(stats.amount_variance_pct, Int2Frac(20))
    /\ stats.count >= 2

AmountVariance(stats) ==
    IF FracLt(stats.amount_variance_pct, Int2Frac(5)) THEN "fixed" ELSE "variable"

\* lines 527-537
AlgorithmUpdated(cur, merchant, clock) ==
    LET stats == merchant.stats
        frequency == detect_frequency_from_interval(stats.avg_interval_days)
    IN [cur EXCEPT !.is_recurring = TRUE,
                   !.frequency = frequency,
                   !.typical_amount = stats.amount_min,
                   !.amount_variance = AmountVariance(stats),
                   !.confidence = "medium",
                   !.ai_verified = FALSE,
                   !.transaction_count = stats.count,
                   !.first_transaction_date = Date(FirstDate(merchant)),
                   !.last_transaction_date = Date(LastDate(merchant)),
                   !.next_expected_date =
                       calculate_next_expected_date(LastDate(merchant), frequency),
                   !.last_analyzed_at = clock]

\* lines 539-556
AlgorithmCreated(merchant, user_id, clock) ==
    LET stats == merchant.stats
        frequency == detect_frequency_from_interval(stats.avg_interval_days)
    IN [id |-> 0, user_id |-> user_id, merchant_key |-> merchant.merchant_key,
        merchant_name |-> merchant.merchant_name,
        is_recurring |-> TRUE,
        frequency |-> frequency,
        typical_amount |-> stats.amount_min,
        amount_variance |-> AmountVariance(stats),
        confidence |-> "medium",
        category |-> merchant.category,
        transaction_count |-> stats.count,
        first_transaction_date |-> Date(FirstDate(merchant)),
        last_transaction_date |-> Date(LastDate(merchant)),
        next_expected_date |-> calculate_next_expected_date(LastDate(merchant), frequency),
        ai_verified |-> FALSE, ai_notes |-> "Detected by algorithm",
        last_analyzed_at |-> clock]

\* lines 492-559, one iteration of the loop
AlgorithmMerchant(st, merchant, user_id, table, clock) ==
    IF ~AlgorithmIsRecurring(merchant.stats) THEN st
    ELSE LET q == QueryFirst(st.objs, table, user_id, merchant.merchant_key)
             entry == IF q.idx # 0
                      THEN AlgorithmUpdated(q.objs[q.idx].cur, merchant, clock)
                      ELSE AlgorithmCreated(merchant, user_id, clock)
         IN [st EXCEPT !.objs = IF q.idx # 0
                                THEN [q.objs EXCEPT ![q.idx].cur = entry]
                                ELSE SessionAdd(q.objs, entry),
                       !.ret = Append(@, CacheToDict(entry))]

RECURSIVE AlgorithmOnlyDetection(_, _, _, _, _)
AlgorithmOnlyDetection(st, merchants, user_id, table, clock) ==
    IF merchants = <<>> THEN st
    ELSE AlgorithmOnlyDetection(
             AlgorithmMerchant(st, Head(merchants), user_id, table, clock),
             Tail(merchants), user_id, table, clock)

\* --------------------------------------------- detect_recurring_payments (181-282)
EmptyMerge == [objs |-> <<>>, ret |-> <<>>, raised |-> FALSE]

\* (mutation: the test of line 216 inverted)
ShortCircuitInverted(force_refresh, cached) == ~force_refresh /\ cached = {}

\* lines 209 and 216: return the cached rows without recomputation
ShortCircuit(force_refresh, cached) == ~force_refresh /\ cached # {}

\* (mutation: the except branch re-raises)
ExceptBranchReraises(objs, merchants, user_id, table, clock) ==
    [objs |-> objs, ret |-> <<>>, raised |-> TRUE]

\* lines 280-282: the except branch, entered with the objects the Session holds
ExceptBranch(objs, merchants, user_id, table, clock) ==
    AlgorithmOnlyDetection([EmptyMerge EXCEPT !.objs = objs],
                           merchants, user_id, table, clock)

\* lines 277-282: [objs, ret, raised, path]
DetectWithOracle(response, merchants, user_id, table, clock) ==
    IF CallRaises(response)
    THEN ExceptBranch(<<>>, merchants, user_id, table, clock)
             @@ [path |-> "algorithm_after_call_failed"]
    ELSE LET st == ProcessAIResults(EmptyMerge, ParsedResults(response),
                                    merchants, user_id, table, clock)
         IN IF st.raised
            THEN ExceptBranch(st.objs, merchants, user_id, table, clock)
                     @@ [path |-> "algorithm_after_merge_failed"]
            ELSE st @@ [path |-> "ai"]

\* lines 463-468 and 561-566: "ok", "conflict" (IntegrityError) or "connection"
CommitOutcome(table, objs, connected) ==
    IF ~connected THEN "connection"
    ELSE IF Flush(table, objs).ok THEN "ok" ELSE "conflict"

CommitTable(table, objs, connected) ==
    IF CommitOutcome(table, objs, connected) = "ok"
    THEN Flush(table, objs).table
    ELSE table

IdleLocal ==
    [user_id |-> "u1", force_refresh |-> FALSE, merchants |-> <<>>, ret |-> <<>>,
     raised |-> FALSE, path |-> "idle", calls |-> 0, response |-> NoResponse,
     commit |-> "none", alone |-> TRUE]

OtherUsersRow ==
    [id |-> 1, user_id |-> OtherUser, merchant_key |-> "m1",
     merchant_name |-> "M1 STORE #1", is_recurring |-> TRUE, frequency |-> "weekly",
     typical_amount |-> 700, amount_variance |-> "fixed", confidence |-> "medium",
     category |-> "Uncategorized", transaction_count |-> 2,
     first_transaction_date |-> Date(-7), last_transaction_date |-> Date(0),
     next_expected_date |-> Date(7), ai_verified |-> FALSE,
     ai_notes |-> "Detected by algorithm", last_analyzed_at |-> 0]

\* the profiles of m1 and m2 the ledger starts with
LedgerScenarios ==
    { <<"weekly", "weekly">>, <<"irregular", "weekly">>, <<"irregular", "single">>,
      <<"variable", "single">>, <<"aging", "single">> }

InitWith(scenarios, keys, callers, answers, calls) ==
    /\ \E sc \in scenarios :
          transactions = LedgerOf("m1", sc[1]) \cup LedgerOf("m2", sc[2])
    /\ cache = {OtherUsersRow}
    /\ now = 0
    /\ hasKey \in keys
    /\ pc = [r \in Runs |-> "idle"]
    /\ session = [r \in Runs |-> <<>>]
    /\ local = [r \in Runs |-> IdleLocal]
    /\ workers = callers
    /\ menu = answers
    /\ left = calls
    /\ snapshots = {}
    /\ utcnow = 0
    /\ probe = NoProbe

\* one call at a time
Init == InitWith(LedgerScenarios, BOOLEAN, {"r1"}, Responses, -1)

\* two calls that may overlap (two executor threads, or a thread and a request)
ConcurrentResponses ==
    {[kind |-> "json", results |-> rs] :
            rs \in { <<WithKey(VNo, "m1"), WithKey(VNo, "m2")>>,
                     <<WithKey(VRecurring, "m2"), WithKey(VRecurring, "m1"),
                       WithKey(VNo, "m1")>> }}

InitConcurrent ==
    InitWith({<<"weekly", "weekly">>}, {TRUE}, Runs, ConcurrentResponses, MaxCalls)

\* the call returns (or raises): its Session is closed and its local
\* variables are gone, the result stays with the caller
Returned(r, result) ==
    /\ pc' = [pc EXCEPT ![r] = "done"]
    /\ session' = [session EXCEPT ![r] = <<>>]
    /\ local' = [q \in Runs |->
                   IF q = r THEN [result EXCEPT !.merchants = <<>>,
                                                !.response = NoResponse]
                   ELSE IF result.commit = "none" THEN local[q]
                   ELSE [local[q] EXCEPT !.alone = FALSE]]

\* detect_recurring_payments up to the await of line 278 (or to the commit of
\* the algorithm-only branch when no API key is set)
DetectStart(r, user_id, force_refresh) ==
    /\ r \in workers
    /\ pc[r] \in {"idle", "done"}
    /\ r \in Threads => force_refresh
    /\ left # 0
    /\ left' = IF left > 0 THEN left - 1 ELSE left
    /\ LET cached == CachedRecurring(cache, user_id)
           merchants == MerchantsToAnalyze(ExpenseTransactions(transactions, user_id, now))
           begun == [IdleLocal EXCEPT !.user_id = user_id, !.force_refresh = force_refresh]
       IN IF ShortCircuit(force_refresh, cached)
          THEN Returned(r, [begun EXCEPT !.ret = CachedDicts(cache, user_id),
                                         !.path = "cached"])
          ELSE IF merchants = <<>>
          THEN Returned(r, [begun EXCEPT !.path = "no_candidates"])
          ELSE IF ~hasKey
          THEN LET st == AlgorithmOnlyDetection(EmptyMerge, merchants, user_id, cache, now)
               IN /\ pc' = [pc EXCEPT ![r] = "commit"]
                  /\ local' = [local EXCEPT ![r] =
                        [begun EXCEPT !.merchants = merchants, !.ret = st.ret,
                                      !.path = "algorithm"]]
                  /\ session' = [session EXCEPT ![r] = st.objs]
          ELSE /\ pc' = [pc EXCEPT ![r] = "await_ai"]
               /\ local' = [local EXCEPT ![r] =
                     [begun EXCEPT !.merchants = merchants, !.calls = 1, !.path = "ai"]]
               /\ session' = [session EXCEPT ![r] = <<>>]
    /\ UNCHANGED <<transactions, cache, now, hasKey, workers, menu>>
    /\ UNCHANGED <<snapshots, utcnow, probe>>

\* the oracle call of line 278 completes; lines 279-282 run to the commit
OracleRespond(r, response) ==
    /\ pc[r] = "await_ai"
    /\ response \in menu
    /\ LET out == DetectWithOracle(response, local[r].merchants, local[r].user_id,
                                   cache, now)
           after == [local[r] EXCEPT !.response = response, !.ret = out.ret,
                                     !.raised = out.raised, !.path = out.path]
       IN IF out.raised
          THEN Returned(r, after)
          ELSE /\ pc' = [pc EXCEPT ![r] = "commit"]
               /\ local' = [local EXCEPT ![r] = after]
               /\ session' = [session EXCEPT ![r] = out.objs]
    /\ UNCHANGED <<transactions, cache, now, hasKey, workers, menu, left>>
    /\ UNCHANGED <<snapshots, utcnow, probe>>

\* db.commit() of lines 463-468 / 561-566 and the return of line 470 / 568
Commit(r, connected) ==
    /\ pc[r] = "commit"
    /\ cache' = CommitTable(cache, session[r], connected)
    /\ Returned(r, [local[r] EXCEPT
                      !.commit = CommitOutcome(cache, session[r], connected)])
    /\ UNCHANGED <<transactions, now, hasKey, workers, menu, left>>
    /\ UNCHANGED <<snapshots, utcnow, probe>>

\* PATCH /transactions/{id}/category (api/v1/transactions.py 473-494).  A call
\* reads the ledger only when it starts, so an edit made while every caller is
\* past that point is the same edit made when the first of them has returned.
update_transaction_category(t, category) ==
    /\ \E r \in workers : pc[r] \in {"idle", "done"}
    /\ t \in transactions
    /\ t.category # category
    /\ transactions' = (transactions \ {t}) \cup {[t EXCEPT !.category = category]}
    /\ UNCHANGED <<cache, now, hasKey, pc, session, local, workers, menu, left>>
    /\ UNCHANGED <<snapshots, utcnow, probe>>

\* the transactions whose category the user edits: the latest one of m1
Edited == {t \in transactions : t.merchant_key = "m1"
                                /\ \A o \in transactions :
                                      o.merchant_key = "m1" => o.date <= t.date}

\* a day passes.  A call reads the clock up to its merge, so a day passing
\* while every caller stands at its commit is the same day passing after the
\* first of the commits.
Tick ==
    /\ now < MaxDay
    /\ \E r \in workers : pc[r] # "commit"
    /\ now' = now + 1
    /\ UNCHANGED <<transactions, cache, hasKey, pc, session, local, workers, menu, left>>
    /\ UNCHANGED <<snapshots, utcnow, probe>>

Next ==
    \/ \E r \in Runs, u \in Users, f \in BOOLEAN : DetectStart(r, u, f)
    \/ \E r \in Runs, response \in Responses : OracleRespond(r, response)
    \/ \E r \in Runs, connected \in BOOLEAN : Commit(r, connected)
    \/ \E t \in Edited, c \in Categories : update_transaction_category(t, c)
    \/ Tick

Spec == Init /\ [][Next]_vars

SpecConcurrent == InitConcurrent /\ [][Next]_vars

\* ------------------------------------------- generated merchant groups
\* the days between one expense and the one before it, and the amounts
Gaps == {0, 7, 30}
Amounts == {-500, -525, -600}

RECURSIVE DaysBack(_, _)
DaysBack(gaps, i) == IF i = 0 THEN 0 ELSE gaps[i] + DaysBack(gaps, i - 1)

\* the rows of merchant m: the latest expense today, the others gaps apart
ObservedLedger(m, gaps, amounts) ==
    { [id |-> FirstId(m) + i, user_id |-> "u1", merchant_key |-> m,
       date |-> -DaysBack(gaps, i - 1), amount |-> amounts[i],
       description_raw |-> DescriptionRaw(m), category |-> "Uncategorized"]
      : i \in 1..Len(amounts) }

\* a row the oracle path left for m1
VerifiedRow ==
    [OtherUsersRow EXCEPT !.id = 2, !.user_id = "u1", !.is_recurring = FALSE,
                          !.frequency = NULL, !.confidence = "high",
                          !.ai_verified = TRUE, !.ai_notes = "One-off purchases",
                          !.next_expected_date = NoDate]

\* three charges of 15.99 on 2025-01-01, 2025-02-01 and 2025-03-03 (day 0)
MonthlyCharges == ObservedLedger("m1", <<30, 31>>, <<-1599, -1599, -1599>>)

\* no credentials, one call, over every generated group of m1
InitAlgorithm ==
    /\ \/ \E n \in 1..MaxTxns :
             \E amounts \in [1..n -> Amounts], gaps \in [1..(n - 1) -> Gaps] :
                 transactions = ObservedLedger("m1", gaps, amounts)
       \/ transactions = MonthlyCharges
    /\ cache \in {{OtherUsersRow}, {OtherUsersRow, VerifiedRow}}
    /\ now = 0
    /\ hasKey = FALSE
    /\ pc = [r \in Runs |-> "idle"]
    /\ session = [r \in Runs |-> <<>>]
    /\ local = [r \in Runs |-> IdleLocal]
    /\ workers = {"r1"}
    /\ menu = {}
    /\ left = 1
    /\ snapshots = {}
    /\ utcnow = 0
    /\ probe = NoProbe

NextAlgorithm ==
    \/ \E r \in Runs, u \in Users, f \in BOOLEAN : DetectStart(r, u, f)
    \/ \E r \in Runs, connected \in BOOLEAN : Commit(r, connected)

SpecAlgorithm == InitAlgorithm /\ [][NextAlgorithm]_vars

\* ------------------------------------------------ Python floats (binary64)
\* The amounts are Float columns and the insights are computed with Python
\* floats.  A natural number of any size is a sequence of limbs, lowest first,
\* without a highest limb of 0; a positive float is [m, e] for m * 2^e with m
\* of 53 bits, and zero is [m |-> <<>>, e |-> 0].  Every operation gives the
\* nearest float to the exact result, ties to even, as IEEE 754 does.
Limb == 32768
LimbBits == 15
MantissaBits == 53

RECURSIVE Pow2(_)
Pow2(k) == IF k = 0 THEN 1 ELSE 2 * Pow2(k - 1)

RECURSIVE BigNorm(_)
BigNorm(a) ==
    IF a = <<>> THEN <<>>
    ELSE IF a[Len(a)] = 0 THEN BigNorm(SubSeq(a, 1, Len(a) - 1)) ELSE a

RECURSIVE BigFromNat(_)
BigFromNat(n) == IF n = 0 THEN <<>> ELSE <<n % Limb>> \o BigFromNat(n \div Limb)

RECURSIVE BigAddCarry(_, _, _)
BigAddCarry(a, b, c) ==
    IF a = <<>> /\ b = <<>> THEN (IF c = 0 THEN <<>> ELSE <<c>>)
    ELSE LET x == (IF a = <<>> THEN 0 ELSE Head(a)) + (IF b = <<>> THEN 0 ELSE Head(b)) + c
         IN <<x % Limb>> \o BigAddCarry(IF a = <<>> THEN <<>> ELSE Tail(a),
                                         IF b = <<>> THEN <<>> ELSE Tail(b),
                                         x \div Limb)

BigAdd(a, b) == BigAddCarry(a, b, 0)

RECURSIVE BigLessFrom(_, _, _)
BigLessFrom(a, b, i) ==
    IF i = 0 THEN FALSE
    ELSE IF a[i] # b[i] THEN a[i] < b[i]
    ELSE BigLessFrom(a, b, i - 1)

BigLess(a, b) ==
    IF Len(a) # Len(b) THEN Len(a) < Len(b) ELSE BigLessFrom(a, b, Len(a))

\* a - b for a >= b
RECURSIVE BigSubBorrow(_, _, _)
BigSubBorrow(a, b, c) ==
    IF a = <<>> THEN <<>>
    ELSE LET x == Head(a) - (IF b = <<>> THEN 0 ELSE Head(b)) - c
         IN <<IF x < 0 THEN x + Limb ELSE x>>
                \o BigSubBorrow(Tail(a), IF b = <<>> THEN <<>> ELSE Tail(b),
                                 IF x < 0 THEN 1 ELSE 0)

BigSub(a, b) == BigNorm(BigSubBorrow(a, b, 0))

\* a * k + c for k and c below Limb
RECURSIVE BigMulSmall(_, _, _)
BigMulSmall(a, k, c) ==
    IF a = <<>> THEN (IF c = 0 THEN <<>> ELSE <<c>>)
    ELSE LET x == Head(a) * k + c
         IN <<x % Limb>> \o BigMulSmall(Tail(a), k, x \div Limb)

RECURSIVE BigMul(_, _)
BigMul(a, b) ==
    IF a = <<>> \/ b = <<>> THEN <<>>
    ELSE BigNorm(BigAdd(BigMulSmall(a, Head(b), 0), <<0>> \o BigMul(a, Tail(b))))

\* a * 2^k
BigShl(a, k) ==
    IF a = <<>> THEN <<>>
    ELSE [i \in 1..(k \div LimbBits) |-> 0]
             \o BigNorm(BigMulSmall(a, Pow2(k % LimbBits), 0))

RECURSIVE SmallBitLen(_)
SmallBitLen(n) == IF n = 0 THEN 0 ELSE 1 + SmallBitLen(n \div 2)

BigBitLen(a) ==
    IF a = <<>> THEN 0 ELSE LimbBits * (Len(a) - 1) + SmallBitLen(a[Len(a)])

BigIsOdd(a) == a # <<>> /\ a[1] % 2 = 1

\* the limb k with d * k <= r < d * (k + 1), found between lo and hi by halving
RECURSIVE BigDigit(_, _, _, _)
BigDigit(r, d, lo, hi) ==
    IF hi - lo = 1 THEN lo
    ELSE IF BigLess(r, BigMulSmall(d, (lo + hi) \div 2, 0))
         THEN BigDigit(r, d, lo, (lo + hi) \div 2)
         ELSE BigDigit(r, d, (lo + hi) \div 2, hi)

BigDivTake(r, q, d, k) ==
    [q |-> <<k>> \o q, r |-> BigSub(r, BigMulSmall(d, k, 0))]

BigDivStep(p, limb, d) ==
    BigDivTake(BigNorm(<<limb>> \o p.r), p.q, d,
               BigDigit(BigNorm(<<limb>> \o p.r), d, 0, Limb))

\* long division, one limb of n at a time: [q, r] of the limbs of n from limb i up
RECURSIVE BigDivFrom(_, _, _)
BigDivFrom(n, d, i) ==
    IF i > Len(n) THEN [q |-> <<>>, r |-> <<>>]
    ELSE BigDivStep(BigDivFrom(n, d, i + 1), n[i], d)

BigDivNorm(p) == [q |-> BigNorm(p.q), r |-> p.r]

BigDivLong(n, d) == BigDivNorm(BigDivFrom(n, d, 1))

\* division by one limb k
BigDivSmallStep(p, limb, k) ==
    [q |-> <<(p.r * Limb + limb) \div k>> \o p.q, r |-> (p.r * Limb + limb) % k]

RECURSIVE BigDivSmallFrom(_, _, _)
BigDivSmallFrom(n, k, i) ==
    IF i > Len(n) THEN [q |-> <<>>, r |-> 0]
    ELSE BigDivSmallStep(BigDivSmallFrom(n, k, i + 1), n[i], k)

BigDivSmallNorm(p) == [q |-> BigNorm(p.q), r |-> BigFromNat(p.r)]

BigDivSmall(n, k) == BigDivSmallNorm(BigDivSmallFrom(n, k, 1))

\* a divisor that ends in a limb of 0: the lowest limb of n goes to the remainder
BigDivShifted(n, p) == [q |-> p.q, r |-> BigNorm(<<n[1]>> \o p.r)]

\* [q, r] with n = q * d + r and r < d, for d above 0
RECURSIVE BigDivMod(_, _)
BigDivMod(n, d) ==
    IF n = <<>> THEN [q |-> <<>>, r |-> <<>>]
    ELSE IF Len(d) = 1 THEN BigDivSmall(n, d[1])
    ELSE IF d[1] = 0 THEN BigDivShifted(n, BigDivMod(Tail(n), Tail(d)))
    ELSE BigDivLong(n, d)

\* the nearest integer to n / d, ties to even, from x = [q, r] of the division
BigRoundQuotient(x, d) ==
    IF BigLess(BigMulSmall(x.r, 2, 0), d) THEN x.q
    ELSE IF BigLess(d, BigMulSmall(x.r, 2, 0)) THEN BigAdd(x.q, <<1>>)
    ELSE IF BigIsOdd(x.q) THEN BigAdd(x.q, <<1>>) ELSE x.q

BigRoundDiv(n, d) == BigRoundQuotient(BigDivMod(n, d), d)

FloatZero == [m |-> <<>>, e |-> 0]

\* a mantissa that rounding carried to 54 bits is halved
FloatPack(m, e) ==
    IF BigBitLen(m) > MantissaBits
    THEN [m |-> BigDivSmall(m, 2).q, e |-> e + 1]
    ELSE [m |-> m, e |-> e]

\* round to nearest, ties to even: m0 is the quotient without its low bits,
\* low those bits, half their middle value, exact whether nothing is left over
FloatRoundUp(m0, low, half, exact) ==
    \/ low > half
    \/ low = half /\ (~exact \/ BigIsOdd(m0))

FloatNearest(m0, low, half, exact, e) ==
    FloatPack(IF FloatRoundUp(m0, low, half, exact) THEN BigAdd(m0, <<1>>) ELSE m0, e)

\* the quotient x = [q, r], of t bits more than the mantissa holds, times 2^e
FloatCut(x, t, e) ==
    FloatNearest(BigDivSmall(x.q, Pow2(t)).q, x.q[1] % Pow2(t), Pow2(t - 1),
                 x.r = <<>>, e + t)

FloatOfQuotient(x, e) == FloatCut(x, BigBitLen(x.q) - MantissaBits, e)

\* n * 2^s / d has two or three bits more than the mantissa holds
FloatShifted(n, d, s) ==
    FloatOfQuotient(IF s >= 0 THEN BigDivMod(BigShl(n, s), d)
                    ELSE BigDivMod(n, BigShl(d, -s)), -s)

\* the float nearest to n / d, for n and d above 0
FloatOfRatio(n, d) ==
    FloatShifted(n, d, (MantissaBits + 2) - (BigBitLen(n) - BigBitLen(d)))

\* the float of the decimal n / d (a literal, or a value stored in a Float column)
FloatOf(n, d) == IF n = 0 THEN FloatZero ELSE FloatOfRatio(BigFromNat(n), BigFromNat(d))

Scaled(x, e) == [m |-> x.m, e |-> x.e + e]

FloatMul(x, y) ==
    IF x.m = <<>> \/ y.m = <<>> THEN FloatZero
    ELSE Scaled(FloatOfRatio(BigMul(x.m, y.m), <<1>>), x.e + y.e)

FloatDiv(x, y) ==
    IF x.m = <<>> THEN FloatZero
    ELSE Scaled(FloatOfRatio(x.m, y.m), x.e - y.e)

\* x + y with both mantissas brought to the exponent e
FloatAddAt(x, y, e) ==
    Scaled(FloatOfRatio(BigAdd(BigShl(x.m, x.e - e), BigShl(y.m, y.e - e)), <<1>>), e)

FloatAdd(x, y) ==
    IF x.m = <<>> THEN y
    ELSE IF y.m = <<>> THEN x
    ELSE FloatAddAt(x, y, IF x.e < y.e THEN x.e ELSE y.e)

\* x < n and x >= n for a natural n
FloatLtNat(x, n) ==
    IF x.e >= 0 THEN BigLess(BigShl(x.m, x.e), BigFromNat(n))
    ELSE BigLess(x.m, BigShl(BigFromNat(n), -x.e))

FloatGeNat(x, n) == ~FloatLtNat(x, n)

\* round(x, ndigits) and f"{x:.nf}", as the integer x * scale rounded to the
\* nearest, ties to even, for scale = 10^ndigits (a value below 2^31)
RECURSIVE BigToNat(_)
BigToNat(a) == IF a = <<>> THEN 0 ELSE Head(a) + Limb * BigToNat(Tail(a))

FloatRound(x, scale) ==
    IF x.m = <<>> THEN 0
    ELSE IF x.e >= 0 THEN BigToNat(BigShl(BigMul(x.m, BigFromNat(scale)), x.e))
    ELSE BigToNat(BigRoundDiv(BigMul(x.m, BigFromNat(scale)), BigShl(<<1>>, -x.e)))

\* ------------------------------------ insights service (recurring_insights.py)
\* Instants are hours; datetime.date() and timedelta.days drop the hours.
DateOf(instant) == instant \div HoursPerDay
TimedeltaDays(delta) == delta \div HoursPerDay

\* round(x, ndigits) of a non-negative fraction, to the nearest unit, ties to even
Round(x) ==
    LET q == x.num \div x.den
        r == x.num % x.den
    IN IF 2 * r < x.den THEN q
       ELSE IF 2 * r > x.den THEN q + 1
       ELSE IF q % 2 = 0 THEN q ELSE q + 1

SnapshotsOf(table, user_id) == {x \in table : x.user_id = user_id}

\* lines 60-65: the dict made from a row
SnapshotDict(row) ==
    [summary |-> row.summary, insights |-> row.insights, upcoming |-> row.upcoming,
     generated_at |-> IsoFormat(row.analyzed_at)]

\* get_cached_insights: <<>> for None, <<dict>> otherwise
get_cached_insights(table, user_id, clock) ==
    LET rows == SnapshotsOf(table, user_id)
    IN IF rows = {} THEN <<>>
       ELSE LET cached == FirstRow(rows)
                days_since == TimedeltaDays(clock - cached.analyzed_at)
            IN IF days_since > INSIGHTS_CACHE_DAYS THEN <<>>
               ELSE <<SnapshotDict(cached)>>

\* (mutation: an existing snapshot keeps the fields the new insights lack)
SaveInsightsMerging(table, user_id, insights, clock) ==
    LET rows == SnapshotsOf(table, user_id)
        written == [f \in DOMAIN insights \cap {"summary", "insights", "upcoming"} |->
                       insights[f]] @@ [analyzed_at |-> clock]
        blank == [summary |-> <<>>, insights |-> <<>>, upcoming |-> <<>>]
    IN IF rows # {}
       THEN LET existing == FirstRow(rows)
            IN (table \ {existing}) \cup {written @@ existing}
       ELSE table \cup {written @@ blank @@ [id |-> NextId(table), user_id |-> user_id]}

\* save_insights: the table after the commit of line 98
save_insights(table, user_id, insights, clock) ==
    LET rows == SnapshotsOf(table, user_id)
        written == [summary |-> Get(insights, "summary", <<>>),
                    insights |-> Get(insights, "insights", <<>>),
                    upcoming |-> Get(insights, "upcoming", <<>>),
                    analyzed_at |-> clock]
    IN IF rows # {}
       THEN LET existing == FirstRow(rows)
            IN (table \ {existing})
                   \cup {[f \in DOMAIN existing |->
                            IF f \in DOMAIN written THEN written[f] ELSE existing[f]]}
       ELSE table \cup {written @@ [id |-> NextId(table), user_id |-> user_id]}

\* calculate_monthly_amount: the multipliers 4.33, 2.17, 1, 1/3 and 1/12 in
\* three-hundredths
MonthlyMultiplier(frequency) ==
    CASE frequency = "weekly" -> 1299
      [] frequency = "bi-weekly" -> 651
      [] frequency = "monthly" -> 300
      [] frequency = "quarterly" -> 100
      [] frequency = "yearly" -> 25
      [] OTHER -> 300

calculate_monthly_amount(amount, frequency) == amount * MonthlyMultiplier(frequency)

\* lines 153-170
RecurringPayments(table, user_id) ==
    LET rows == OrderById(CachedRecurring(table, user_id))
    IN [i \in 1..Len(rows) |->
          [merchant_key |-> rows[i].merchant_key,
           merchant_name |-> Or(rows[i].merchant_name, rows[i].merchant_key),
           category |-> Or(rows[i].category, "Other"),
           frequency |-> Or(rows[i].frequency, "monthly"),
           typical_amount |-> rows[i].typical_amount,
           amount_variance |-> Or(rows[i].amount_variance, "variable"),
           next_expected_date |-> IsoOrNone(rows[i].next_expected_date)]]

\* lines 184-191: the expenses of the last 30 days
TotalMonthlyExpenses(txnTable, user_id, clock) ==
    LET rows == OrderByDateDesc({t \in txnTable : /\ t.user_id = user_id
                                                  /\ t.date >= DateOf(clock) - 30
                                                  /\ t.amount < 0})
    IN Abs(SumSeq([i \in 1..Len(rows) |-> rows[i].amount]))

\* _empty_insights
EmptyInsights(clock) ==
    [summary |-> [total_monthly |-> 0, total_yearly |-> 0, count |-> 0,
                  percentage_of_expenses |-> 0, by_category |-> <<>>],
     insights |-> << [type |-> "info", title |-> "No Recurring Payments",
                      message |-> [text |-> "No recurring payments detected yet"],
                      priority |-> "info"] >>,
     upcoming |-> <<>>,
     generated_at |-> IsoFormat(clock)]

\* keys of by_category in insertion order
RECURSIVE CategoryKeys(_, _)
CategoryKeys(payments, seen) ==
    IF payments = <<>> THEN <<>>
    ELSE IF Head(payments).category \in seen THEN CategoryKeys(Tail(payments), seen)
    ELSE <<Head(payments).category>>
         \o CategoryKeys(Tail(payments), seen \cup {Head(payments).category})

MonthlyOf(payments) ==
    [i \in 1..Len(payments) |->
        calculate_monthly_amount(payments[i].typical_amount, payments[i].frequency)]

\* by_category[c], in three-hundredths
ByCategory(payments, c) ==
    SumSeq(MonthlyOf(SelectSeq(payments, LAMBDA q : q.category = c)))

\* max(by_category.items(), key=lambda x: x[1]): the first of the largest
TopCategory(payments) ==
    LET keys == CategoryKeys(payments, {})
        best == CHOOSE i \in 1..Len(keys) :
                   /\ \A j \in 1..Len(keys) :
                         ByCategory(payments, keys[j]) <= ByCategory(payments, keys[i])
                   /\ \A j \in 1..(i - 1) :
                         ByCategory(payments, keys[j]) < ByCategory(payments, keys[i])
    IN keys[best]

\* upcoming.sort(key=lambda x: x["days_until"]): stable
RECURSIVE InsertByDaysUntil(_, _)
InsertByDaysUntil(sorted, u) ==
    IF sorted = <<>> THEN <<u>>
    ELSE IF u.days_until < Head(sorted).days_until THEN <<u>> \o sorted
    ELSE <<Head(sorted)>> \o InsertByDaysUntil(Tail(sorted), u)

RECURSIVE SortByDaysUntil(_)
SortByDaysUntil(us) ==
    IF us = <<>> THEN <<>>
    ELSE InsertByDaysUntil(SortByDaysUntil(SubSeq(us, 1, Len(us) - 1)), us[Len(us)])

\* lines 344-359
UpcomingOf(payments, today) ==
    LET due == SelectSeq(payments, LAMBDA q :
                   /\ q.next_expected_date # NoDate
                   /\ IsIsoDate(q.next_expected_date[1])
                   /\ 0 <= Strptime(q.next_expected_date[1]) - today
                   /\ Strptime(q.next_expected_date[1]) - today <= 14)
    IN [i \in 1..Len(due) |->
          [merchant |-> due[i].merchant_name, amount |-> due[i].typical_amount,
           date |-> due[i].next_expected_date[1],
           days_until |-> Strptime(due[i].next_expected_date[1]) - today]]

Top(us, n) == SubSeq(us, 1, IF Len(us) < n THEN Len(us) ELSE n)

\* calculate_monthly_amount on the floats: amount * 4.33, * 2.17, * 1, * (1/3)
\* and * (1/12)
FloatMultiplier(frequency) ==
    CASE frequency = "weekly" -> FloatOf(433, 100)
      [] frequency = "bi-weekly" -> FloatOf(217, 100)
      [] frequency = "monthly" -> FloatOf(1, 1)
      [] frequency = "quarterly" -> FloatOf(1, 3)
      [] frequency = "yearly" -> FloatOf(1, 12)
      [] OTHER -> FloatOf(1, 1)

\* sum(): from 0, one after the other
RECURSIVE FloatSum(_)
FloatSum(xs) ==
    IF xs = <<>> THEN FloatZero
    ELSE FloatAdd(FloatSum(SubSeq(xs, 1, Len(xs) - 1)), xs[Len(xs)])

\* lines 176-179: total_monthly as the float the service holds
FloatTotalMonthly(payments) ==
    FloatSum([i \in 1..Len(payments) |->
                FloatMul(FloatOf(payments[i].typical_amount, 100),
                         FloatMultiplier(payments[i].frequency))])

\* line 312: total_monthly / total_monthly_expenses * 100 on the floats; the
\* expenses are the float nearest to the sum of the amounts
Percentage(payments, total_monthly_expenses) ==
    IF total_monthly_expenses > 0
    THEN FloatMul(FloatDiv(FloatTotalMonthly(payments),
                           FloatOf(total_monthly_expenses, 100)),
                  FloatOf(100, 1))
    ELSE FloatZero

\* lines 314-372, with the percentage of line 312: total_monthly and
\* total_yearly in three-hundredths of a cent, the summary in cents and in
\* tenths of a percent
BasicInsightsWith(payments, total_monthly, total_yearly, percentage, clock) ==
    LET keys == CategoryKeys(payments, {})
        costs == << [type |-> "cost_analysis", title |-> "Monthly Recurring Costs",
                     message |-> [values |-> <<total_monthly, total_yearly, Len(payments)>>],
                     priority |-> "info"] >>
        largest == IF Len(keys) > 1
                   THEN << [type |-> "cost_analysis",
                            title |-> "Largest Category",
                            message |-> [category |-> TopCategory(payments),
                                         values |-> <<ByCategory(payments,
                                                         TopCategory(payments))>>],
                            priority |-> "info"] >>
                   ELSE <<>>
        proportion == IF FloatGeNat(percentage, 5)
                      THEN << [type |-> "cost_analysis", title |-> "Expense Proportion",
                               message |-> [values |-> <<FloatRound(percentage, 10)>>],
                               priority |-> IF FloatLtNat(percentage, 20)
                                            THEN "info" ELSE "warning"] >>
                      ELSE <<>>
    IN [summary |->
            [total_monthly |-> Round(Frac(total_monthly, 300)),
             total_yearly |-> Round(Frac(total_yearly, 300)),
             count |-> Len(payments),
             percentage_of_expenses |-> FloatRound(percentage, 10),
             by_category |-> [i \in 1..Len(keys) |->
                                <<keys[i], Round(Frac(ByCategory(payments, keys[i]), 300))>>]],
        insights |-> costs \o largest \o proportion,
        upcoming |-> Top(SortByDaysUntil(UpcomingOf(payments, DateOf(clock))), 5),
        generated_at |-> IsoFormat(clock)]

\* _generate_basic_insights
BasicInsights(payments, total_monthly, total_yearly, total_monthly_expenses, clock) ==
    BasicInsightsWith(payments, total_monthly, total_yearly,
                      Percentage(payments, total_monthly_expenses), clock)

\* the answers of the oracle to the insights prompt
AIInsights ==
    [summary |-> [total_monthly |-> 1599, count |-> 1],
     insights |-> << [type |-> "optimization", title |-> "Cancel unused subscription",
                      message |-> [text |-> "You have not used it"], priority |-> "warning"] >>,
     upcoming |-> <<>>]

AIInsightsPartial == [insights |-> << [title |-> "Overview"] >>]

InsightResponses ==
    {[kind |-> "error"], [kind |-> "unparseable"],
     [kind |-> "json", object |-> AIInsights],
     [kind |-> "json", object |-> AIInsightsPartial]}

\* _get_ai_insights: it raises when the call does and when the content holds no
\* JSON object that parses (lines 275-282)
InsightsCallRaises(response) == response.kind \in {"error", "unparseable"}

\* lines 268-274
AIResult(response, clock) == [generated_at |-> IsoFormat(clock)] @@ response.object

\* lines 256-282 of api/v1/recurring.py: building the response raises KeyError
\* on an insight or an upcoming entry without one of its keys
ResponseRaises(result) ==
    \/ \E i \in 1..Len(Get(result, "insights", <<>>)) :
          ~({"type", "title", "message", "priority"} \subseteq DOMAIN result.insights[i])
    \/ \E i \in 1..Len(Get(result, "upcoming", <<>>)) :
          ~({"amount", "date", "days_until"} \subseteq DOMAIN result.upcoming[i])

IdleInsights ==
    [user_id |-> "u1", force_refresh |-> FALSE, payments |-> <<>>,
     total_monthly_expenses |-> 0, result |-> <<>>, source |-> "idle", calls |-> 0,
     raised |-> FALSE, saved |-> FALSE]

\* the snapshots the store may hold when the service is called: none, or one
\* of u1 analysed so many hours ago
SnapshotAges == {29 * HoursPerDay, 30 * HoursPerDay, 30 * HoursPerDay + 1,
                 31 * HoursPerDay - 1, 31 * HoursPerDay}

StoredSnapshot(id, user_id, age) ==
    [id |-> id, user_id |-> user_id,
     summary |-> [total_monthly |-> 700, count |-> 1],
     insights |-> << [type |-> "anomaly", title |-> "Price increase",
                      message |-> [text |-> "It went up"], priority |-> "warning"] >>,
     upcoming |-> << [merchant |-> "M2 STORE #2", amount |-> 700,
                      date |-> IsoFormat(3), days_until |-> 3] >>,
     analyzed_at |-> -age]

\* the cached patterns of u1 the service may find
RecurringRow(id, m, category, typical_amount, next) ==
    [OtherUsersRow EXCEPT !.id = id, !.user_id = "u1", !.merchant_key = m,
                          !.merchant_name = DescriptionRaw(m), !.category = category,
                          !.typical_amount = typical_amount,
                          !.next_expected_date = next]

\* seven subscriptions of u1, six of them due within a fortnight
SubscriptionKeys == <<"m1", "m2", "m3", "m4", "m5", "m6", "m7">>
SubscriptionDue == <<14, 0, 3, 3, 10, 1, 15>>

ManySubscriptions ==
    { [RecurringRow(i + 1, SubscriptionKeys[i], "Bills", 100 * i, Date(SubscriptionDue[i]))
          EXCEPT !.frequency = "monthly"] : i \in 1..Len(SubscriptionKeys) }

PatternCaches ==
    { {},
      {[RecurringRow(2, "m1", "Uncategorized", 500, Date(7)) EXCEPT !.is_recurring = FALSE]},
      {RecurringRow(2, "m1", "Income", 500, Date(7))},
      {RecurringRow(2, "m1", "Uncategorized", 5, Date(7))},
      {RecurringRow(2, "m1", "Uncategorized", 500, Date(15)),
       RecurringRow(3, "m2", "Bills", 500, Date(0))},
      {[RecurringRow(2, "m1", "Bills", 113, Date(7)) EXCEPT !.frequency = "monthly"]},
      ManySubscriptions }

\* the expenses of the last 30 days: four of 7.00 and one of 5.00, or one of 22.60
InsightLedgers ==
    { LedgerOf("m1", "weekly") \cup LedgerOf("m2", "variable"),
      ObservedLedger("m2", <<>>, <<-2260>>) }

InitInsights ==
    /\ transactions \in InsightLedgers
    /\ \E rows \in PatternCaches : cache = {OtherUsersRow} \cup rows
    /\ now = 0
    /\ hasKey \in BOOLEAN
    /\ pc = [r \in Runs |-> "idle"]
    /\ session = [r \in Runs |-> <<>>]
    /\ local = [r \in Runs |-> IdleInsights]
    /\ workers = {"r1"}
    /\ menu = InsightResponses
    /\ left = -1
    /\ snapshots \in {{StoredSnapshot(1, OtherUser, 0)}}
                     \cup {{StoredSnapshot(1, OtherUser, 0), StoredSnapshot(2, "u1", age)}
                              : age \in SnapshotAges}
    /\ utcnow = 0
    /\ probe = NoProbe

\* the handler returns (or answers 500): its locals are gone, the result stays
InsightsReturned(r, result) ==
    /\ pc' = [pc EXCEPT ![r] = "done"]
    /\ local' = [local EXCEPT ![r] = [result EXCEPT !.payments = <<>>,
                                                    !.total_monthly_expenses = 0,
                                                    !.raised = @ \/ ResponseRaises(result.result)]]

\* get_insights up to the oracle call of line 248 of recurring_insights.py (or
\* to save_insights when no call is made)
get_insights(r, user_id, force_refresh) ==
    /\ r \in workers
    /\ pc[r] \in {"idle", "done"}
    /\ LET cached == IF force_refresh THEN <<>>
                     ELSE get_cached_insights(snapshots, user_id, utcnow)
           payments == RecurringPayments(cache, user_id)
           total_monthly == SumSeq(MonthlyOf(payments))
           expenses == TotalMonthlyExpenses(transactions, user_id, utcnow)
           begun == [IdleInsights EXCEPT !.user_id = user_id,
                                         !.force_refresh = force_refresh]
           goes(to, l) == /\ pc' = [pc EXCEPT ![r] = to]
                          /\ local' = [local EXCEPT ![r] = l]
       IN IF cached # <<>>
          THEN InsightsReturned(r, [begun EXCEPT !.result = cached[1],
                                                 !.source = "cached"])
          ELSE IF payments = <<>>
          THEN goes("insights_save", [begun EXCEPT !.result = EmptyInsights(utcnow),
                                                    !.source = "empty"])
          ELSE IF ~hasKey
          THEN goes("insights_save",
                    [begun EXCEPT !.payments = payments,
                                  !.total_monthly_expenses = expenses,
                                  !.result = BasicInsights(payments, total_monthly,
                                                 total_monthly * 12, expenses, utcnow),
                                  !.source = "basic"])
          ELSE goes("insights_await", [begun EXCEPT !.payments = payments,
                                                     !.total_monthly_expenses = expenses,
                                                     !.calls = 1])
    /\ UNCHANGED <<transactions, cache, now, hasKey, session, workers, menu, left,
                   snapshots, utcnow, probe>>

\* (mutation: the except clause of line 210 lets the exception go on)
InsightsExceptReraises(l, clock) == [l EXCEPT !.raised = TRUE, !.source = "failed"]

\* lines 210-219: the exception of _get_ai_insights is logged and the basic
\* insights are returned
InsightsExcept(l, clock) ==
    LET total_monthly == SumSeq(MonthlyOf(l.payments))
    IN [l EXCEPT !.result = BasicInsights(l.payments, total_monthly, total_monthly * 12,
                                          l.total_monthly_expenses, clock),
                 !.source = "basic_after_failure"]

\* the oracle call of _get_ai_insights completes; lines 203-219
InsightsOracleResponds(r, response) ==
    /\ pc[r] = "insights_await"
    /\ response \in menu
    /\ LET l == local[r]
       IN /\ pc' = [pc EXCEPT ![r] = "insights_save"]
          /\ local' = [local EXCEPT ![r] =
                IF InsightsCallRaises(response)
                THEN InsightsExcept(l, utcnow)
                ELSE [l EXCEPT !.result = AIResult(response, utcnow),
                               !.source = "ai"]]
    /\ UNCHANGED <<transactions, cache, now, hasKey, session, workers, menu, left,
                   snapshots, utcnow, probe>>

\* save_insights (lines 249 and 254 of api/v1/recurring.py) and the response
InsightsSave(r, connected) ==
    /\ pc[r] = "insights_save"
    /\ IF connected
       THEN /\ snapshots' = save_insights(snapshots, local[r].user_id,
                                          local[r].result, utcnow)
            /\ InsightsReturned(r, [local[r] EXCEPT !.saved = TRUE])
       ELSE /\ snapshots' = snapshots
            /\ InsightsReturned(r, [local[r] EXCEPT !.raised = TRUE])
    /\ UNCHANGED <<transactions, cache, now, hasKey, session, workers, menu, left,
                   utcnow, probe>>

\* an hour passes
Elapse ==
    /\ utcnow < MaxHours
    /\ utcnow' = utcnow + 1
    /\ UNCHANGED <<transactions, cache, now, hasKey, pc, session, local, workers,
                   menu, left, snapshots, probe>>

NextInsights ==
    \/ \E r \in Runs, u \in Users, f \in BOOLEAN : get_insights(r, u, f)
    \/ \E r \in Runs, response \in InsightResponses : InsightsOracleResponds(r, response)
    \/ \E r \in Runs, connected \in BOOLEAN : InsightsSave(r, connected)
    \/ Elapse

SpecInsights == InitInsights /\ [][NextInsights]_vars

\* ------------------------------------------- statistics engine, applied
\* the observations of a merchant group: dates 9 and 10 days apart, two amounts
ObservedDays == {-19, -9, 0}
ObservedAmounts == {-500, -525}

Observations == [date : {IsoFormat(d) : d \in ObservedDays}, amount : ObservedAmounts]

ObservationLists == UNION {[1..n -> Observations] : n \in 0..MaxObs}

\* the averages a list of up to MaxObs observations can give, and the values
\* around them: every n/d from -1 to MaxInterval
Averages == {Frac(n, d) : n \in (-(MaxObs - 1))..(MaxInterval * (MaxObs - 1)),
                          d \in 1..(MaxObs - 1)}

InitStats ==
    /\ transactions = {}
    /\ cache = {}
    /\ now = 0
    /\ hasKey = FALSE
    /\ pc = [r \in Runs |-> "idle"]
    /\ session = [r \in Runs |-> <<>>]
    /\ local = [r \in Runs |-> IdleLocal]
    /\ workers = {}
    /\ menu = {}
    /\ left = 0
    /\ snapshots = {}
    /\ utcnow = 0
    /\ probe \in {[fn |-> "input", transactions |-> txns] : txns \in ObservationLists}
                 \cup {[fn |-> "input", avg_interval |-> avg] : avg \in Averages}

\* stats = calculate_transaction_stats(txns) (line 254)
ApplyStatistics ==
    /\ probe.fn = "input" /\ "transactions" \in DOMAIN probe
    /\ probe' = [fn |-> "calculate_transaction_stats", input |-> probe.transactions,
                 output |-> calculate_transaction_stats(probe.transactions)]
    /\ UNCHANGED <<transactions, cache, now, hasKey, pc, session, local, workers, menu,
                   left, snapshots, utcnow>>

\* detect_frequency_from_interval(avg_interval), of a given average or of the
\* average of the statistics (line 501)
ApplyFrequency ==
    /\ \/ probe.fn = "input" /\ "avg_interval" \in DOMAIN probe
       \/ probe.fn = "calculate_transaction_stats"
    /\ LET avg_interval == IF probe.fn = "input" THEN probe.avg_interval
                           ELSE probe.output.avg_interval_days
       IN probe' = [fn |-> "detect_frequency_from_interval", input |-> avg_interval,
                    output |-> detect_frequency_from_interval(avg_interval)]
    /\ UNCHANGED <<transactions, cache, now, hasKey, pc, session, local, workers, menu,
                   left, snapshots, utcnow>>

NextStats == ApplyStatistics \/ ApplyFrequency

SpecStats == InitStats /\ [][NextStats]_vars

\* ------------------------------------------- get_upcoming_payments (608-647)
\* (mutation: the last day of the window is left out)
InUpcomingWindowExclusive(next, today, days) ==
    /\ next # NoDate
    /\ next[1] >= today
    /\ next[1] < today + days

\* lines 631-633: next_expected_date != None, >= today, <= future
InUpcomingWindow(next, today, days) ==
    /\ next # NoDate
    /\ next[1] >= today
    /\ next[1] <= today + days

\* lines 626-634: the rows the query selects
UpcomingRows(table, user_id, today, days) ==
    {x \in CachedRecurring(table, user_id) :
        InUpcomingWindow(x.next_expected_date, today, days)}

\* order_by(next_expected_date): the rows in any order that ascends by date
\* (the order of rows of one date is the database's)
UpcomingOrders(rows) ==
    {q \in [1..Cardinality(rows) -> rows] :
        /\ \A i \in DOMAIN q, j \in DOMAIN q : q[i] = q[j] => i = j
        /\ \A i \in DOMAIN q, j \in DOMAIN q :
              i < j => q[i].next_expected_date[1] <= q[j].next_expected_date[1]}

\* lines 638-645 (typical_amount is a number in every record the detector
\* writes, and "x or 0" of a number is the number)
UpcomingDict(x, today) ==
    [merchant_key |-> x.merchant_key,
     merchant_name |-> Or(x.merchant_name, x.merchant_key),
     amount |-> x.typical_amount,
     expected_date |-> IsoFormat(x.next_expected_date[1]),
     days_until |-> x.next_expected_date[1] - today]

\* the records of one merchant of u1 the detector may have left
UpcomingVariants(id, m) ==
    {RecurringRow(id, m, "Uncategorized", 500, next)
        : next \in {Date(-1), Date(0), Date(1), Date(7), Date(8), Date(9), NoDate}}
    \cup {RecurringRow(id, m, "Income", 500, Date(1)),
          [RecurringRow(id, m, "Uncategorized", 500, Date(1)) EXCEPT !.is_recurring = FALSE,
                                                                    !.merchant_name = NULL],
          [RecurringRow(id, m, "Bills", 0, Date(7)) EXCEPT !.merchant_name = NULL]}

UpcomingDays == {1, 7}

InitUpcoming ==
    /\ transactions = {}
    /\ \E r1 \in SUBSET UpcomingVariants(2, "m1"), r2 \in SUBSET UpcomingVariants(3, "m2") :
          /\ Cardinality(r1) <= 1 /\ Cardinality(r2) <= 1
          /\ cache = {OtherUsersRow} \cup r1 \cup r2
    /\ now = 0
    /\ hasKey = FALSE
    /\ pc = [r \in Runs |-> "idle"]
    /\ session = [r \in Runs |-> <<>>]
    /\ local = [r \in Runs |-> IdleLocal]
    /\ workers = {"r1"}
    /\ menu = {}
    /\ left = 0
    /\ snapshots = {}
    /\ utcnow = 0
    /\ probe = NoProbe

\* GET /recurring/upcoming (api/v1/recurring.py 292-325)
get_upcoming(user_id, days) ==
    /\ \E q \in UpcomingOrders(UpcomingRows(cache, user_id, now, days)) :
          probe' = [fn |-> "get_upcoming_payments", user_id |-> user_id, days |-> days,
                    today |-> now, raised |-> FALSE,
                    output |-> [i \in DOMAIN q |-> UpcomingDict(q[i], now)]]
    /\ UNCHANGED <<transactions, cache, now, hasKey, pc, session, local, workers, menu,
                   left, snapshots, utcnow>>

NextUpcoming ==
    \/ \E u \in Users, days \in UpcomingDays : get_upcoming(u, days)
    \/ Tick

SpecUpcoming == InitUpcoming /\ [][NextUpcoming]_vars

\* ------------------- _categorize_transactions_in_background (transactions.py)
\* transaction_ids[i:i + batch_size]
BatchOf(transaction_ids, i, batch_size) ==
    SubSeq(transaction_ids, i + 1,
           IF i + batch_size < Len(transaction_ids) THEN i + batch_size
           ELSE Len(transaction_ids))

TotalBatches(n, batch_size) == (n + batch_size - 1) \div batch_size

RECURSIVE AscendingIds(_)
AscendingIds(S) ==
    IF S = {} THEN <<>>
    ELSE LET x == CHOOSE y \in S : \A z \in S : y <= z
         IN <<x>> \o AscendingIds(S \ {x})

\* what categorize_transactions_batch(current_batch) gives: an exception (the
\* queries before its try), or results for the transactions it found, some of
\* them with an error (no API key, failed call, failed commit)
Outcomes(current_batch) ==
    LET ids == {current_batch[k] : k \in 1..Len(current_batch)}
    IN {[kind |-> "raise"]}
       \cup {[kind |-> "result",
               results |-> [k \in 1..Cardinality(found) |->
                              [transaction_id |-> AscendingIds(found)[k],
                               error |-> IF AscendingIds(found)[k] \in errors
                                         THEN "error" ELSE NULL]]]
              : found \in SUBSET ids, errors \in SUBSET ids}

NoOutcome == [kind |-> "none"]

\* (mutation: the whole batch is submitted again)
RetryWholeBatch(l, outcome) ==
    IF outcome.kind = "raise"
    THEN IF l.retry_count < l.max_retries
         THEN [go |-> "retry", batch |-> l.current_batch]
         ELSE [go |-> "break"]
    ELSE IF \A k \in 1..Len(outcome.results) : outcome.results[k].error = NULL
         THEN [go |-> "break"]
         ELSE IF l.retry_count < l.max_retries
              THEN [go |-> "retry", batch |-> l.current_batch]
              ELSE [go |-> "break"]

\* lines 105-137: what the loop does with the outcome of a submission
RetryDecision(l, outcome) ==
    IF outcome.kind = "raise"
    THEN IF l.retry_count < l.max_retries
         THEN [go |-> "retry", batch |-> l.current_batch]
         ELSE [go |-> "break"]
    ELSE LET results == outcome.results
             failed_results == SelectSeq(results, LAMBDA x : x.error # NULL)
             total == Len(results)
             failed == Len(failed_results)
             successful == total - failed
             failed_txn_ids == [k \in 1..Len(failed_results) |->
                                  failed_results[k].transaction_id]
         IN IF failed = 0 \/ successful = total THEN [go |-> "break"]
            ELSE IF l.retry_count < l.max_retries
                 THEN IF failed_txn_ids # <<>>
                      THEN [go |-> "retry", batch |-> failed_txn_ids]
                      ELSE [go |-> "break"]
                 ELSE [go |-> "break"]

JobLocal(n, batch_size, max_retries) ==
    [transaction_ids |-> [k \in 1..n |-> k], batch_size |-> batch_size,
     max_retries |-> max_retries, i |-> 0,
     current_batch |-> BatchOf([k \in 1..n |-> k], 0, batch_size),
     retry_count |-> 0,
     attempts |-> [b \in 1..TotalBatches(n, batch_size) |-> 0],
     last |-> NoOutcome]

BatchSizes == {1, 2}

\* the job has been queued by upload_csv and stands at its first batch
InitCategorize ==
    /\ transactions = {}
    /\ cache = {}
    /\ now = 0
    /\ hasKey = TRUE
    /\ pc = [r \in Runs |-> IF r \in Threads THEN "categorize" ELSE "idle"]
    /\ session = [r \in Runs |-> <<>>]
    /\ \E n \in 1..MaxIds, batch_size \in BatchSizes, max_retries \in 0..MaxRetries :
          local = [r \in Runs |-> IF r \in Threads
                                   THEN JobLocal(n, batch_size, max_retries)
                                   ELSE IdleLocal]
    /\ workers = Threads
    /\ menu = {}
    /\ left = 0
    /\ snapshots = {}
    /\ utcnow = 0
    /\ probe = NoProbe

\* one turn of the while loop of line 88: the batch is submitted and the
\* loop goes round again or on to the next batch
CategorizeBatch(r, outcome) ==
    /\ pc[r] = "categorize"
    /\ outcome \in Outcomes(local[r].current_batch)
    /\ LET l == local[r]
           batch_num == (l.i \div l.batch_size) + 1
           submitted == [l EXCEPT !.attempts[batch_num] = @ + 1, !.last = outcome]
           decision == RetryDecision(l, outcome)
           next_i == l.i + l.batch_size
       IN IF decision.go = "retry"
          THEN /\ local' = [local EXCEPT ![r] =
                               [submitted EXCEPT !.retry_count = @ + 1,
                                                 !.current_batch = decision.batch]]
               /\ pc' = pc
          ELSE IF next_i < Len(l.transaction_ids)
          THEN /\ local' = [local EXCEPT ![r] =
                               [submitted EXCEPT !.i = next_i,
                                                 !.retry_count = 0,
                                                 !.current_batch =
                                                     BatchOf(l.transaction_ids, next_i,
                                                             l.batch_size)]]
               /\ pc' = pc
          ELSE /\ local' = [local EXCEPT ![r] = [submitted EXCEPT !.i = next_i]]
               /\ pc' = [pc EXCEPT ![r] = "categorized"]
    /\ UNCHANGED <<transactions, cache, now, hasKey, session, workers, menu, left,
                   snapshots, utcnow, probe>>

NextCategorize ==
    \E r \in Threads :
        \E outcome \in Outcomes(local[r].current_batch) : CategorizeBatch(r, outcome)

\* the thread of the job keeps running
SpecCategorize == InitCategorize /\ [][NextCategorize]_vars /\ WF_vars(NextCategorize)

\* ------------------------------------------------------------------ claims
RetKeys(ret) == {ret[i].merchant_key : i \in 1..Len(ret)}
KeysOf(merchants) == {merchants[i].merchant_key : i \in 1..Len(merchants)}
Analysed(merchants, key) == merchants[CHOOSE i \in MerchantIndex(merchants, key) : TRUE]

\* call r starts in this step
Starts(r) ==
    /\ pc[r] \in {"idle", "done"}
    /\ <<pc'[r], [local'[r] EXCEPT !.alone = TRUE]>> # <<pc[r], [local[r] EXCEPT !.alone = TRUE]>>

\* call r commits (or rolls back) and returns in this step
Commits(r) == pc[r] = "commit" /\ pc'[r] = "done"

\* C1: whatever calls are made, one after the other or overlapping, and
\* whatever the oracle answers, the pattern cache never holds two rows with the
\* same (user_id, merchant_key).
C1_OneRecordPerUserMerchant ==
    \A x \in cache : \A y \in cache :
        (x.user_id = y.user_id /\ x.merchant_key = y.merchant_key) => x = y

\* C1 witness: two calls have both committed rows for m1 and m2, so the later
\* one found the rows of the earlier one.
C1_Witness ==
    /\ \A r \in Runs : pc[r] = "done" /\ local[r].commit = "ok"
    /\ \A m \in Merchants : CacheRows(cache, "u1", m) # {}

\* C2 (as claimed): a run that reaches the merge and commits leaves, for every
\* analysed merchant that it judged non-recurring, a row with is_recurring
\* false, and does not return that merchant.
JudgedNonRecurring(l, key) ==
    /\ key \notin RetKeys(l.ret)
    /\ l.path = "ai" =>
          \E i \in 1..Len(ParsedResults(l.response)) :
              Get(ParsedResults(l.response)[i], "merchant_key", NULL) = key

C2_EveryAnalysedMerchantUpserted ==
    [][\A r \in Runs :
          (Commits(r) /\ local'[r].commit = "ok") =>
              \A key \in KeysOf(local[r].merchants) :
                  JudgedNonRecurring(local[r], key) =>
                      /\ CacheRows(cache', local[r].user_id, key) # {}
                      /\ \A row \in CacheRows(cache', local[r].user_id, key) :
                            row.is_recurring = FALSE]_vars

\* C3 (as claimed): when every candidate merchant has a cached "not recurring"
\* verdict for its present transactions, a call with force_refresh = false
\* does not call the oracle.
AllNoRemembered(table, user_id, merchants) ==
    /\ merchants # <<>>
    /\ \A i \in 1..Len(merchants) :
          \E row \in CacheRows(table, user_id, merchants[i].merchant_key) :
              /\ row.is_recurring = FALSE
              /\ row.ai_verified = TRUE
              /\ row.transaction_count = merchants[i].stats.count
              /\ row.last_transaction_date = Date(LastDate(merchants[i]))
              /\ row.category = merchants[i].category

C3_NoVerdictsNotReverified ==
    [][\A r \in Runs :
          (Starts(r) /\ ~local'[r].force_refresh
             /\ AllNoRemembered(cache, local'[r].user_id,
                   MerchantsToAnalyze(ExpenseTransactions(transactions,
                                                          local'[r].user_id, now))))
          => (pc'[r] # "await_ai" /\ local'[r].calls = 0)]_vars

\* C4: a call with force_refresh = false made while the user has a cached row
\* with is_recurring true and a category other than "Income" returns exactly
\* those rows, calls the oracle zero times and writes nothing.
C4_CacheShortCircuit ==
    [][\A r \in Runs :
          LET hits == {x \in cache : /\ x.user_id = local'[r].user_id
                                     /\ x.is_recurring
                                     /\ x.category # "Income"}
          IN (Starts(r) /\ ~local'[r].force_refresh /\ hits # {}) =>
                /\ pc'[r] = "done"
                /\ ~local'[r].raised
                /\ local'[r].calls = 0
                /\ Len(local'[r].ret) = Cardinality(hits)
                /\ RetKeys(local'[r].ret) = {x.merchant_key : x \in hits}
                /\ cache' = cache
                /\ session'[r] = <<>>]_vars

\* C4 witness: a call returned rows from the cache without calling the oracle.
C4_Witness ==
    \E r \in Runs : /\ pc[r] = "done"
                    /\ local[r].path = "cached"
                    /\ ~local[r].force_refresh
                    /\ local[r].ret # <<>>
                    /\ local[r].calls = 0

\* C5: when the oracle call itself fails, the call does not raise: it runs
\* the algorithm-only classification over the same merchants and goes on to
\* commit and return what that classification returns.
C5_CallFailureFallsBack ==
    [][\A r \in Runs :
          /\ ~local'[r].raised
          /\ (pc[r] = "await_ai" /\ pc'[r] # "await_ai"
                /\ CallRaises(local'[r].response)) =>
              LET alg == AlgorithmOnlyDetection(EmptyMerge, local[r].merchants,
                                                local[r].user_id, cache, now)
              IN /\ pc'[r] = "commit"
                 /\ local'[r].merchants = local[r].merchants
                 /\ local'[r].ret = alg.ret
                 /\ RetKeys(local'[r].ret) =
                       {k \in KeysOf(local[r].merchants) :
                           AlgorithmIsRecurring(Analysed(local[r].merchants, k).stats)}
                 /\ Len(session'[r]) = Len(local'[r].ret)
                 /\ \A i \in 1..Len(session'[r]) :
                       /\ session'[r][i].cur.ai_verified = FALSE
                       /\ session'[r][i].cur.is_recurring]_vars

\* C5 witness: the oracle call failed and the algorithm-only classification
\* found a recurring merchant, which is about to be committed.
C5_Witness ==
    \E r \in Runs : /\ pc[r] = "commit"
                    /\ CallRaises(local[r].response)
                    /\ local[r].path = "algorithm_after_call_failed"
                    /\ local[r].ret # <<>>

\* C6 (as claimed): when the oracle's response holds no JSON array, the call
\* falls back like it does for a failed call: the algorithm-only classification
\* of the same merchants is returned and is what gets cached.
C6_UnparseableFallsBack ==
    \A r \in Runs :
        (pc[r] = "commit" /\ local[r].response.kind = "unparseable") =>
            /\ RetKeys(local[r].ret) =
                  {k \in KeysOf(local[r].merchants) :
                      AlgorithmIsRecurring(Analysed(local[r].merchants, k).stats)}
            /\ Len(session[r]) = Len(local[r].ret)

\* C7 (as claimed): when persisting fails for one merchant, only that
\* merchant's row is dropped: the other merchants of the run are persisted and
\* the call does not raise.
ConflictKeys(table, objs) ==
    {objs[i].cur.merchant_key : i \in
        {i \in 1..Len(objs) :
            /\ objs[i].id = 0
            /\ \/ ~UniqueConstraintHolds(table, objs[i].cur)
               \/ \E j \in 1..Len(objs) :
                     /\ j # i
                     /\ objs[j].id = 0
                     /\ objs[j].cur.merchant_key = objs[i].cur.merchant_key}}

Persisted(table, entry) ==
    \E row \in table : [row EXCEPT !.id = 0] = [entry EXCEPT !.id = 0]

C7_OnlyFailingMerchantDropped ==
    [][\A r \in Runs :
          (Commits(r) /\ local'[r].commit = "conflict") =>
              /\ ~local'[r].raised
              /\ \A i \in 1..Len(session[r]) :
                    session[r][i].cur.merchant_key
                        \notin ConflictKeys(cache, session[r])
                    => Persisted(cache', session[r][i].cur)]_vars

\* C8: when a forced run has committed, the same run made again at once (same
\* transactions, same oracle response) leaves every row as the first run left
\* it, last_analyzed_at apart.
SecondRun(table, l, clock) ==
    LET again == IF l.path = "algorithm"
                 THEN AlgorithmOnlyDetection(EmptyMerge, l.merchants, l.user_id,
                                             table, clock)
                 ELSE DetectWithOracle(l.response, l.merchants, l.user_id,
                                       table, clock)
    IN CommitTable(table, again.objs, TRUE)

ExceptAnalyzedAt(table) == {[row EXCEPT !.last_analyzed_at = 0] : row \in table}

C8_RepeatedRunSameRecords ==
    [][\A r \in Runs :
          (Commits(r) /\ local[r].force_refresh /\ local[r].alone
             /\ local'[r].commit # "connection") =>
              \A clock \in now..(now + 1) :
                  ExceptAnalyzedAt(SecondRun(cache', local[r], clock))
                      = ExceptAnalyzedAt(cache')]_vars

\* C8 witness: a forced run over an oracle response is about to commit a
\* change to a row that a previous run wrote.
C8_Witness ==
    \E r \in Runs : /\ pc[r] = "commit"
                    /\ local[r].force_refresh
                    /\ local[r].path = "ai"
                    /\ \E i \in 1..Len(session[r]) :
                          /\ session[r][i].id # 0
                          /\ session[r][i].cur.is_recurring
                                 # session[r][i].orig.is_recurring
                    /\ CommitTable(cache, session[r], TRUE) # cache

\* C9 (as claimed): every list a call returns, from the cache, from the oracle
\* merge or from the algorithm-only classification, holds only entries with
\* is_recurring true and a category other than "Income".
C9_ReturnedRecurringNotIncome ==
    \A r \in Runs :
        pc[r] = "done" =>
            \A i \in 1..Len(local[r].ret) :
                local[r].ret[i].is_recurring /\ local[r].ret[i].category # "Income"

\* C10: on the oracle path a merchant is stored and returned as recurring only
\* on a verdict with is_recurring and same_transaction both true; a merchant
\* whose verdicts all lack one of them is stored with is_recurring false and is
\* not returned.
VerdictsFor(response, key) ==
    {ParsedResults(response)[i] :
        i \in {i \in 1..Len(ParsedResults(response)) :
                  Get(ParsedResults(response)[i], "merchant_key", NULL) = key}}

BothTrue(result) ==
    /\ "is_recurring" \in DOMAIN result /\ result.is_recurring
    /\ "same_transaction" \in DOMAIN result => result.same_transaction

FrequencyBuckets == {<<5, 9>>, <<12, 17>>, <<26, 35>>, <<85, 100>>, <<350, 380>>}

InSomeBucket(avg) ==
    \E b \in FrequencyBuckets :
        b[1] * avg.den <= avg.num /\ avg.num <= b[2] * avg.den

C11_AlgorithmOnlyRule ==
    \A r \in Runs :
        (pc[r] = "commit" /\ local[r].path = "algorithm") =>
            /\ \A i \in 1..Len(local[r].merchants) :
                  LET m == local[r].merchants[i]
                      marked == \E j \in 1..Len(session[r]) :
                                   /\ session[r][j].cur.merchant_key = m.merchant_key
                                   /\ session[r][j].cur.is_recurring
                                   /\ session[r][j].cur # session[r][j].orig
                                          \/ session[r][j].id = 0
                  IN /\ marked <=>
                          /\ InSomeBucket(m.stats.avg_interval_days)
                          /\ m.stats.amount_variance_pct.num
                                 < 20 * m.stats.amount_variance_pct.den
                          /\ m.stats.count >= 2
                     /\ marked <=> m.merchant_key \in RetKeys(local[r].ret)
            /\ \A j \in 1..Len(session[r]) :
                  (session[r][j].id = 0 \/ session[r][j].cur # session[r][j].orig) =>
                      /\ session[r][j].cur.confidence = "medium"
                      /\ session[r][j].cur.ai_verified = FALSE

\* C11 witness: four expenses 7 days apart of 5.00, 5.00, 5.00 and 5.25 are
\* marked recurring, weekly, medium, not verified.
C11_Witness ==
    \E r \in Runs :
        /\ pc[r] = "commit"
        /\ local[r].path = "algorithm"
        /\ {<<t.date, t.amount>> : t \in transactions}
               = {<<0, -525>>, <<-7, -500>>, <<-14, -500>>, <<-21, -500>>}
        /\ Len(local[r].ret) = 1
        /\ local[r].ret[1].frequency = "weekly"
        /\ local[r].ret[1].confidence = "medium"
        /\ \E j \in 1..Len(session[r]) :
              session[r][j].cur.is_recurring /\ ~session[r][j].cur.ai_verified

\* call r of get_insights starts in this step
StartsInsights(r) ==
    /\ pc[r] \in {"idle", "done"}
    /\ <<pc'[r], local'[r]>> # <<pc[r], local[r]>>

\* C12 (as claimed): a call that may use the cache treats a snapshot as absent
\* when more than 30 days have elapsed since analyzed_at, and returns it
\* unchanged when at most 30 days have.
C12_StaleAfterThirtyDays ==
    [][\A r \in Runs :
          (StartsInsights(r) /\ ~local'[r].force_refresh) =>
              \A row \in SnapshotsOf(snapshots, local'[r].user_id) :
                  IF utcnow - row.analyzed_at > INSIGHTS_CACHE_DAYS * HoursPerDay
                  THEN local'[r].source # "cached"
                  ELSE /\ local'[r].source = "cached"
                       /\ local'[r].result.summary = row.summary
                       /\ local'[r].result.insights = row.insights
                       /\ local'[r].result.upcoming = row.upcoming]_vars

\* C13: the insights store never holds two snapshots of one user, and a
\* generation that returns and is saved (AI, basic fallback or the canned empty
\* snapshot) leaves the user's snapshot with exactly the summary, insights and
\* upcoming of the generated result (empty where the result has none) and with
\* analyzed_at at the time of the save.
AtMostOneSnapshot(table) ==
    \A u \in Users \cup {OtherUser} : Cardinality(SnapshotsOf(table, u)) <= 1

ExpectedBasic(user_id) ==
    LET payments == RecurringPayments(cache, user_id)
        total_monthly == SumSeq(MonthlyOf(payments))
    IN BasicInsights(payments, total_monthly, 12 * total_monthly,
                     TotalMonthlyExpenses(transactions, user_id, utcnow), utcnow)

IsCanned(result) ==
    /\ Len(result.insights) = 1 /\ result.insights[1].type = "info"
    /\ result.upcoming = <<>>
    /\ result.summary.total_monthly = 0 /\ result.summary.total_yearly = 0
    /\ result.summary.count = 0 /\ result.summary.percentage_of_expenses = 0
    /\ result.summary.by_category = <<>>

C14_OracleNeverFailsGeneration ==
    [][\A r \in Runs :
          LET user_id == local'[r].user_id
              payments == RecurringPayments(cache, user_id)
          IN /\ (StartsInsights(r) /\ local'[r].source # "cached") =>
                   /\ ~local'[r].raised
                   /\ (payments = <<>>) =>
                          /\ pc'[r] = "insights_save" /\ local'[r].calls = 0
                          /\ IsCanned(local'[r].result)
                   /\ (payments # <<>> /\ ~hasKey) =>
                          /\ pc'[r] = "insights_save" /\ local'[r].calls = 0
                          /\ local'[r].result = ExpectedBasic(user_id)
                   /\ (payments # <<>> /\ hasKey) => pc'[r] = "insights_await"
             /\ \A response \in InsightResponses :
                   InsightsOracleResponds(r, response) =>
                       /\ ~local'[r].raised
                       /\ pc'[r] = "insights_save"
                       /\ response.kind \in {"error", "unparseable"} =>
                              local'[r].result = ExpectedBasic(user_id)]_vars

\* the call failed and the basic insights of the user's records are returned
C14_Witness ==
    \E r \in Runs :
        /\ pc[r] = "insights_save" /\ local[r].source = "basic_after_failure"
        /\ local[r].calls = 1 /\ ~local[r].raised
        /\ local[r].result.summary.count = 2
        /\ Len(local[r].result.insights) >= 2

\* C15 (as claimed): a detection that may call the oracle runs only on an
\* executor thread with the thread's own session: no call made by a request
\* handler (with the session of the request) ever waits for the oracle.
C15_OracleJobsOnlyOnBackgroundWorkers ==
    \A r \in workers \ Threads : pc[r] # "await_ai"

\* C16 (as claimed): two detection runs of one user never overlap: while one
\* run is between its start and its commit, no other run of that user is.
Running(r) == pc[r] \in {"await_ai", "commit"}

C16_NoOverlappingRunsOfOneUser ==
    \A r \in workers, q \in workers :
        (r # q /\ Running(r) /\ Running(q)) => local[r].user_id # local[q].user_id

\* C17 (as claimed): when runs overlap, the run that commits later wins: its
\* commit does not fail, and every record it wrote (whether or not the other
\* run wrote the same merchant_key) holds its complete verdict afterwards.
NoDuplicateKeys(objs) ==
    \A i \in 1..Len(objs), j \in 1..Len(objs) :
        objs[i].cur.merchant_key = objs[j].cur.merchant_key => i = j

C17_ConcurrentUpsertsLastWriteWins ==
    [][\A r \in Runs :
          (Commits(r) /\ local'[r].commit # "connection" /\ NoDuplicateKeys(session[r])) =>
              /\ ~local'[r].raised
              /\ local'[r].commit = "ok"
              /\ \A i \in 1..Len(session[r]) : Persisted(cache', session[r][i].cur)]_vars

\* C18: no step of a detection run (a commit, a rollback, a failed connection)
\* removes a pattern-cache record: every record of the table is still there
\* afterwards, with its id, its user and its merchant_key, so the keys that
\* have a record only grow.
KeysWithRecord(table) == {<<row.user_id, row.merchant_key>> : row \in table}

C18_DetectorNeverDeletes ==
    [][/\ \A row \in cache : \E kept \in cache' :
             /\ kept.id = row.id
             /\ kept.user_id = row.user_id
             /\ kept.merchant_key = row.merchant_key
       /\ KeysWithRecord(cache) \subseteq KeysWithRecord(cache')]_vars

\* a forced run was rolled back while the records of an earlier run are there
C18_Witness ==
    \E r \in Runs :
        /\ pc[r] = "done" /\ local[r].force_refresh
        /\ local[r].commit \in {"conflict", "connection"}
        /\ {<<"u1", "m1">>, <<"u1", "m2">>} \subseteq KeysWithRecord(cache)

\* C19: detect_frequency_from_interval gives weekly for an average in [5,9],
\* bi-weekly in [12,17], monthly in [26,35], quarterly in [85,100], yearly in
\* [350,380], and None for every other average: the non-integer ones between
\* two ranges and the ones at or below 0 included.
Within(lo, avg, hi) == lo * avg.den <= avg.num /\ avg.num <= hi * avg.den

ClaimedFrequency(avg) ==
    CASE Within(5, avg, 9) -> "weekly"
      [] Within(12, avg, 17) -> "bi-weekly"
      [] Within(26, avg, 35) -> "monthly"
      [] Within(85, avg, 100) -> "quarterly"
      [] Within(350, avg, 380) -> "yearly"
      [] OTHER -> NULL

C19_FrequencyBuckets ==
    probe.fn = "detect_frequency_from_interval" =>
        /\ probe.output = ClaimedFrequency(probe.input)
        /\ probe.input \in {Int2Frac(5), Int2Frac(9)} => probe.output = "weekly"
        /\ probe.input \in {Int2Frac(n) : n \in {0, 4, 10, 18, 36, 101, 381}}
              => probe.output = NULL

\* the average 19/2 = 9.5 of the deltas 9 and 10 falls between weekly and
\* bi-weekly
C19_Witness ==
    /\ probe.fn = "detect_frequency_from_interval"
    /\ probe.input = Frac(19, 2)
    /\ probe.output = NULL

\* C20: calculate_transaction_stats gives the same record for every
\* permutation of the list, count is the length of the list, and
\* avg_interval_days is the mean of the positive day-deltas between consecutive
\* dates: the span of the dates over the number of distinct dates less one, 0
\* when all dates are the same, and all statistics are 0 for the empty list.
Reorderings(n) == {p \in [1..n -> 1..n] : \A i \in 1..n, j \in 1..n : p[i] = p[j] => i = j}

Permuted(s, p) == [i \in 1..Len(s) |-> s[p[i]]]

DaysOf(txns) == {Strptime(txns[i].date) : i \in 1..Len(txns)}

Span(days) ==
    (CHOOSE hi \in days : \A d \in days : d <= hi)
        - (CHOOSE lo \in days : \A d \in days : lo <= d)

C20_StatisticsPermutationInvariant ==
    probe.fn = "calculate_transaction_stats" =>
        LET txns == probe.input
            stats == probe.output
            days == DaysOf(txns)
        IN /\ \A p \in Reorderings(Len(txns)) :
                 calculate_transaction_stats(Permuted(txns, p)) = stats
           /\ stats.count = Len(txns)
           /\ stats.avg_interval_days.den > 0
           /\ IF Cardinality(days) > 1
              THEN stats.avg_interval_days.num * (Cardinality(days) - 1)
                       = Span(days) * stats.avg_interval_days.den
              ELSE stats.avg_interval_days.num = 0
           /\ txns = <<>> =>
                 /\ stats.amount_min = 0 /\ stats.amount_max = 0
                 /\ stats.amount_variance_pct.num = 0

\* three observations out of date order, two of them on the same day
C20_Witness ==
    /\ probe.fn = "calculate_transaction_stats"
    /\ Len(probe.input) = 3
    /\ Strptime(probe.input[1].date) > Strptime(probe.input[2].date)
    /\ probe.input[2].date = probe.input[3].date
    /\ probe.output.avg_interval_days = Frac(19, 1)

\* C21: every record the algorithm-only branch writes has typical_amount equal
\* to the smallest absolute amount of the merchant's expenses, amount_variance
\* "fixed" when all the amounts are equal, and next_expected_date equal to the
\* date of the latest expense plus 7, 14, 30, 90 or 365 days for weekly,
\* bi-weekly, monthly, quarterly or yearly; three charges of 15.99 on
\* 2025-01-01, 2025-02-01 and 2025-03-03 give monthly, 15.99, fixed, 2025-04-02.
ClaimedOffset ==
    [weekly |-> 7, monthly |-> 30, quarterly |-> 90, yearly |-> 365] @@ ("bi-weekly" :> 14)

ExpensesOf(user_id, merchant_key) ==
    {t \in transactions : t.user_id = user_id /\ t.merchant_key = merchant_key}

Written(obj) == obj.id = 0 \/ obj.cur # obj.orig

C21_AlgorithmRecordFields ==
    \A r \in Runs :
        (pc[r] = "commit" /\ local[r].path = "algorithm") =>
            \A j \in 1..Len(session[r]) :
                LET entry == session[r][j].cur
                    group == ExpensesOf(entry.user_id, entry.merchant_key)
                IN Written(session[r][j]) =>
                      /\ \E t \in group : entry.typical_amount = Abs(t.amount)
                      /\ \A t \in group : entry.typical_amount <= Abs(t.amount)
                      /\ (\A t \in group, o \in group : t.amount = o.amount)
                            => entry.amount_variance = "fixed"
                      /\ entry.frequency \in DOMAIN ClaimedOffset
                      /\ \E t \in group :
                            /\ \A o \in group : o.date <= t.date
                            /\ entry.next_expected_date
                                   = Date(t.date + ClaimedOffset[entry.frequency])
                      /\ transactions = MonthlyCharges =>
                            /\ entry.frequency = "monthly"
                            /\ entry.typical_amount = 1599
                            /\ entry.amount_variance = "fixed"
                            /\ entry.next_expected_date = Date(30)

\* the three charges of 15.99 have been analysed and the record is written
C21_Witness ==
    \E r \in Runs :
        /\ pc[r] = "commit" /\ local[r].path = "algorithm"
        /\ transactions = MonthlyCharges
        /\ Len(session[r]) = 1 /\ Written(session[r][1])
        /\ session[r][1].cur.next_expected_date = Date(30)
        /\ local[r].ret[1].frequency = "monthly"

\* C22: get_upcoming_payments(user, days) returns exactly the user's cached
\* records that are recurring, not of category "Income", and expected between
\* today and today + days inclusive, once each, in ascending order of
\* next_expected_date, each with days_until = next_expected_date - today; it
\* does not raise, and returns the empty list when the user has no record.
DueKeys(user_id, today, days) ==
    {x.merchant_key : x \in
        {x \in cache : /\ x.user_id = user_id
                       /\ x.is_recurring = TRUE
                       /\ x.category # "Income"
                       /\ x.next_expected_date # NoDate
                       /\ today <= x.next_expected_date[1]
                       /\ x.next_expected_date[1] <= today + days}}

C22_UpcomingExactlyDue ==
    probe.fn = "get_upcoming_payments" =>
        LET out == probe.output
        IN /\ ~probe.raised
           /\ {out[i].merchant_key : i \in 1..Len(out)}
                  = DueKeys(probe.user_id, probe.today, probe.days)
           /\ Len(out) = Cardinality(DueKeys(probe.user_id, probe.today, probe.days))
           /\ \A i \in 1..Len(out), j \in 1..Len(out) :
                 i < j => Strptime(out[i].expected_date) <= Strptime(out[j].expected_date)
           /\ \A i \in 1..Len(out) :
                 /\ out[i].days_until = Strptime(out[i].expected_date) - probe.today
                 /\ \E x \in cache :
                       /\ x.user_id = probe.user_id
                       /\ x.merchant_key = out[i].merchant_key
                       /\ x.next_expected_date = Date(Strptime(out[i].expected_date))
           /\ (\A x \in cache : x.user_id # probe.user_id) => out = <<>>

\* two records are due, the later on the last day of the window, while a
\* third of another user is left out
C22_Witness ==
    /\ probe.fn = "get_upcoming_payments"
    /\ probe.days = 7 /\ probe.today = 1
    /\ Len(probe.output) = 2
    /\ probe.output[1].days_until = 0
    /\ probe.output[2].days_until = 7

\* C23: when the verdicts have been merged, a verdict without merchant_key or
\* with a key that is not a candidate's has written nothing and the call does
\* not raise; the record of every candidate the response has no verdict for
\* is in the table after the commit exactly as before (last_analyzed_at
\* included); and a record that was written carries the statistics of the
\* candidate of its key and a verdict given for that key, wherever the
\* verdict stands in the response.
NamedKeys(results, merchants) ==
    {results[i].merchant_key :
        i \in {i \in 1..Len(results) : "merchant_key" \in DOMAIN results[i]}}
    \cap {merchants[i].merchant_key : i \in 1..Len(merchants)}

VerdictsOf(results, key) ==
    {results[i] : i \in {i \in 1..Len(results) :
                            Get(results[i], "merchant_key", NULL) = key}}

CandidateOf(merchants, key) ==
    merchants[CHOOSE i \in 1..Len(merchants) : merchants[i].merchant_key = key]

C23_UnmatchedVerdictsSkipped ==
    [][\A r \in Runs :
          (Commits(r) /\ local[r].path = "ai" /\ local[r].response.kind = "json") =>
              LET results == local[r].response.results
                  named == NamedKeys(results, local[r].merchants)
              IN /\ ~local'[r].raised
                 /\ \A row \in cache :
                       (row.user_id # local[r].user_id \/ row.merchant_key \notin named)
                           => row \in cache'
                 /\ \A j \in 1..Len(session[r]) :
                       LET entry == session[r][j].cur
                       IN /\ entry.merchant_key \in named
                          /\ entry.user_id = local[r].user_id
                          /\ entry.transaction_count
                                 = CandidateOf(local[r].merchants,
                                               entry.merchant_key).stats.count
                          /\ \E v \in VerdictsOf(results, entry.merchant_key) :
                                entry.is_recurring = BothTrue(v)]_vars

\* the response holds a verdict without key, one for an unknown merchant and
\* one for m1, and none for m2, which has a record
C23_Witness ==
    \E r \in Runs :
        /\ pc[r] = "commit" /\ local[r].path = "ai"
        /\ local[r].response.kind = "json"
        /\ Len(local[r].response.results) = 3
        /\ "merchant_key" \notin DOMAIN local[r].response.results[1]
        /\ KeysOf(local[r].merchants) = {"m1", "m2"}
        /\ \E row \in cache : row.user_id = "u1" /\ row.merchant_key = "m2"
        /\ \A j \in 1..Len(session[r]) : session[r][j].cur.merchant_key = "m1"

\* C24: in the background categorization job a batch is submitted at most
\* max_retries + 1 times (3 with the default of 2); a retry that follows
\* results with errors submits exactly the ids whose result carried an error;
\* every turn of the retry loop either adds one to retry_count, which never
\* passes max_retries, or leaves the batch, so the loop of every batch ends;
\* and when the job ends every batch has been submitted, whatever the earlier
\* batches did.
ErrorIds(outcome) ==
    {outcome.results[k].transaction_id :
        k \in {k \in 1..Len(outcome.results) : outcome.results[k].error # NULL}}

SeqRange(q) == {q[k] : k \in 1..Len(q)}

C24_BatchRetriesBounded ==
    /\ [][\A r \in Threads :
             (pc[r] = "categorize" /\ local'[r] # local[r]) =>
                 LET l == local[r]
                     m == local'[r]
                 IN /\ \A b \in DOMAIN m.attempts :
                          /\ m.attempts[b] <= m.max_retries + 1
                          /\ m.attempts[b] <= 3
                    /\ \/ m.i > l.i
                       \/ /\ m.i = l.i
                          /\ m.retry_count = l.retry_count + 1
                          /\ m.retry_count <= m.max_retries
                    /\ (m.i = l.i /\ m.last.kind = "result") =>
                          /\ SeqRange(m.current_batch) = ErrorIds(m.last)
                          /\ Len(m.current_batch) = Cardinality(ErrorIds(m.last))
                    /\ (m.i > l.i /\ pc'[r] = "categorize") =>
                          /\ m.retry_count = 0
                          /\ m.current_batch
                                 = BatchOf(m.transaction_ids, m.i, m.batch_size)
                    /\ pc'[r] = "categorized" =>
                          \A b \in DOMAIN m.attempts : m.attempts[b] >= 1]_vars
    /\ \A r \in Threads : <>(pc[r] = "categorized")

\* the first batch raised three times and the second, after a partial
\* failure, was retried with the one id that failed
C24_Witness ==
    \E r \in Threads :
        /\ pc[r] = "categorize"
        /\ local[r].max_retries = 2 /\ local[r].batch_size = 2
        /\ local[r].attempts = <<3, 1>>
        /\ local[r].last.kind = "result"
        /\ local[r].retry_count = 1
        /\ local[r].current_batch = <<4>>

\* the step on which the basic insights of a run are generated
GeneratesBasic(r) ==
    /\ pc[r] # "insights_save" /\ pc'[r] = "insights_save"
    /\ local'[r].source \in {"basic", "basic_after_failure"}

HasProportion(result) ==
    \E i \in 1..Len(result.insights) : result.insights[i].title = "Expense Proportion"

\* the next_expected_date values of the user's recurring records, in days from today
DueIn(user_id) ==
    {x.next_expected_date[1] - DateOf(utcnow) :
        x \in {y \in CachedRecurring(cache, user_id) : y.next_expected_date # NoDate}}

UpcomingAsClaimed(r) ==
    LET upcoming == local'[r].result.upcoming
    IN /\ \A i \in 1..Len(upcoming) :
             /\ 0 <= upcoming[i].days_until /\ upcoming[i].days_until <= 14
             /\ upcoming[i].days_until \in DueIn(local'[r].user_id)
       /\ \A i, j \in 1..Len(upcoming) :
             i < j => upcoming[i].days_until <= upcoming[j].days_until
       /\ Len(upcoming) <= 5

\* the recurring cost (in three-hundredths of a cent) is at least 5% of the
\* expenses of the last 30 days (in cents)
AtLeastFivePercent(user_id) ==
    LET cost == SumSeq(MonthlyOf(RecurringPayments(cache, user_id)))
        expenses == TotalMonthlyExpenses(transactions, user_id, utcnow)
    IN cost * 20 >= 300 * expenses

\* C25: the upcoming list of the basic insights holds only payments whose
\* next_expected_date is 0 to 14 days from today, is sorted ascending by
\* days_until and has at most 5 entries; the proportion-of-expenses insight is
\* present if and only if the recurring cost is at least 5% of the expenses of
\* the last 30 days (there are such expenses in every state here).
C25_BasicUpcomingAndProportion ==
    [][\A r \in Runs :
          GeneratesBasic(r) =>
              /\ UpcomingAsClaimed(r)
              /\ HasProportion(local'[r].result) <=> AtLeastFivePercent(local'[r].user_id)]_vars

\* the table an algorithm-only run alone would have committed
AlgorithmAlone(table, l, clock) ==
    CommitTable(table,
                AlgorithmOnlyDetection(EmptyMerge, l.merchants, l.user_id, table, clock).objs,
                TRUE)

\* C26: when the merge of the oracle's verdicts raises part-way and the run
\* falls back to the algorithm-only branch, every record in the state the
\* fallback commits equals the record an algorithm-only run alone would have
\* produced, or its value before the run; nothing the aborted merge wrote is
\* committed.
C26_FallbackCommitsNothingOfAbortedMerge ==
    [][\A r \in Runs :
          (Commits(r) /\ local[r].path = "algorithm_after_merge_failed"
             /\ local'[r].commit = "ok") =>
              \A row \in cache' :
                  \/ row \in cache
                  \/ Persisted(AlgorithmAlone(cache, local[r], now), row)]_vars

\* a record apart from its id and last_analyzed_at (created_at is not modelled)
ExceptIdAndAnalyzedAt(entry) == [entry EXCEPT !.id = 0, !.last_analyzed_at = 0]

\* the records a first-time insert would create for the merchant of an object
\* of the run: from the merchant's statistics in the algorithm-only branch,
\* from a verdict of the response for that merchant in the oracle branch
FirstTimeInserts(l, key, clock) ==
    IF l.path = "ai"
    THEN {AICreated(v, CandidateOf(l.merchants, key), l.user_id, clock) :
             v \in VerdictsOf(ParsedResults(l.response), key)}
    ELSE {AlgorithmCreated(CandidateOf(l.merchants, key), l.user_id, clock)}

\* C27: the upsert replaces: for the same verdict and the same transactions
\* the record left by updating an existing record equals, created_at and
\* last_analyzed_at apart, the record a first-time insert would create,
\* whatever the existing record held; no ai_notes, merchant_name, category or
\* next_expected_date survives from the earlier verdict.
C27_UpsertReplaces ==
    [][\A r \in Runs :
          (Commits(r) /\ local'[r].commit = "ok"
             /\ local[r].path \in {"ai", "algorithm", "algorithm_after_call_failed"}) =>
              \A i \in 1..Len(session[r]) :
                  session[r][i].id # 0 =>
                      \E created \in FirstTimeInserts(local[r],
                                        session[r][i].cur.merchant_key, now) :
                          /\ ExceptIdAndAnalyzedAt(session[r][i].cur)
                                = ExceptIdAndAnalyzedAt(created)
                          /\ \E row \in cache' :
                                ExceptIdAndAnalyzedAt(row) = ExceptIdAndAnalyzedAt(created)]_vars

\* C28: every record in the list a force_refresh run returns is in the
\* committed pattern cache, with the field values returned, when the call
\* returns; also when the commit of the merge fails and is rolled back.
C28_ReturnedRecordsAreCommitted ==
    [][\A r \in Runs :
          (Commits(r) /\ local[r].force_refresh) =>
              \A i \in 1..Len(local'[r].ret) :
                  \E row \in cache' :
                      /\ row.user_id = local[r].user_id
                      /\ CacheToDict(row) = local'[r].ret[i]]_vars

\* the candidate merchants the response holds more than one verdict for
TwiceNamed(results, merchants) ==
    {k \in NamedKeys(results, merchants) :
        \E i, j \in 1..Len(results) :
            /\ i # j
            /\ Get(results[i], "merchant_key", NULL) = k
            /\ Get(results[j], "merchant_key", NULL) = k}

\* C29: when the response holds two verdicts for one merchant_key and that
\* merchant has no cached record yet, the run still commits: afterwards exactly
\* one record exists for that merchant, and the records of the other merchants
\* of the response are persisted as well.
C29_DuplicateVerdictsStillCommit ==
    [][\A r \in Runs :
          (Commits(r) /\ local[r].path = "ai" /\ local[r].response.kind = "json"
             /\ local'[r].commit # "connection") =>
              LET results == local[r].response.results
                  named == NamedKeys(results, local[r].merchants)
              IN \A k \in TwiceNamed(results, local[r].merchants) :
                    CacheRows(cache, local[r].user_id, k) = {} =>
                        /\ local'[r].commit = "ok"
                        /\ Cardinality(CacheRows(cache', local[r].user_id, k)) = 1
                        /\ \A other \in named :
                              CacheRows(cache', local[r].user_id, other) # {}]_vars

\* forced run r completes in this step: by its commit, or at once when there
\* is no candidate merchant
ForcedRunCompletes(r) ==
    /\ local'[r].force_refresh /\ ~local'[r].raised
    /\ \/ Commits(r) /\ local'[r].commit = "ok"
       \/ Starts(r) /\ pc'[r] = "done" /\ local'[r].path = "no_candidates"

\* the merchants a call with force_refresh = false returns from the cache
ReturnedFromCache(table, user_id) == RetKeys(CachedDicts(table, user_id))

\* C30: right after a force_refresh run has completed, a call with
\* force_refresh = false over unchanged transactions returns the same set of
\* merchants as the forced run returned: a merchant cached as recurring that
\* is now judged non-recurring, or is no candidate any more, is not returned
\* from the cache.  (A call that finds no recurring record recomputes; what it
\* answers from the cache is what is compared.)
C30_CacheAgreesWithForcedRun ==
    [][\A r \in Runs :
          (ForcedRunCompletes(r) /\ local'[r].alone
             /\ ShortCircuit(FALSE, CachedRecurring(cache', local'[r].user_id))) =>
              ReturnedFromCache(cache', local'[r].user_id) = RetKeys(local'[r].ret)]_vars

====
